---- MODULE Spec2Model ----
(***************************************************************************)
(* Model of the detection and build/flash orchestration engine of the      *)
(* STM32 Professional Compiler extension: ToolchainManager, DeviceManager, *)
(* BuildService, FlashService and the utilities they call.                 *)
(*                                                                         *)
(* Strings that the code inspects character by character are sequences of  *)
(* one-character strings; strings that the code only compares or passes on *)
(* are TLA+ strings.                                                       *)
(***************************************************************************)
EXTENDS Integers, Sequences, FiniteSets, TLC

VARIABLES
    \* ---- environment of the toolchain detector ----
    platform,          \* process.platform
    onPath,            \* executables that `which`/`where` finds
    binFiles,          \* <<root, executable>>: <root>/bin/<executable> exists
    binExec,           \* the subset of binFiles with execute permission
    versionOf,         \* executable -> what `--version` reports
    envChanges,        \* number of environment changes so far
    \* ---- ToolchainManager ----
    cachedToolchain,   \* ToolchainManager.cachedToolchain
    tcPc,              \* caller -> position inside detectToolchain
    tcLocal,           \* caller -> the local object `toolchain` being built
    tcProbed,          \* caller -> tools probed by its current/last call
    tcPrev,            \* value returned by the most recently completed call
    tcCleared,         \* a clearCache() ran since the most recent call started
    tcOverlap,         \* some call overlapped another call or a clearCache()
    tcLastWarm,        \* the most recently started call took the cached value
    tcLastAfterClear,  \* the most recently started call followed a clearCache()
    tcCacheHit,        \* some call so far took the cached value
    \* ---- BuildService ----
    cpus,              \* require('os').cpus().length
    bPc,               \* position inside build()
    bProfile,          \* argument `profile`
    bSystem,           \* argument `buildSystem`
    bValidation,       \* what validateToolchain() returned to build()
    bSpawned,          \* subprocesses spawned by this invocation, in order
    bChildren,         \* how the subprocesses that returned ended, in order
    bOutcome,          \* how build() ended: a BuildResult or a thrown error
    \* ---- DeviceManager ----
    workspaces,        \* workspace root -> its directory entries, in readdir order
    cachedDeviceInfo,  \* DeviceManager.cachedDeviceInfo
    devRet,            \* what the last detectDevice() returned
    devRoot,           \* the workspaceRoot of the last detectDevice()
    devCold,           \* the last detectDevice() found the cache empty
    \* ---- FlashService ----
    buildDir,          \* workspace root -> its build directory: whether it
                       \* exists, and its entries in readdir order
    fPc,               \* position inside flash()
    fRoot,             \* argument `workspaceRoot`
    fGiven,            \* argument `elfFile`
    fElf,              \* the binary flash() settled on
    fProgrammer,       \* what detectProgrammer() returned to flash()
    fDevice,           \* what detectDevice() returned to flash()
    fDetections,       \* detectProgrammer() calls of this invocation
    fSpawned,          \* subprocesses spawned by this invocation, in order
    fChildren,         \* what the subprocesses that returned did, in order
    fHexMissing,       \* flashWithJLink started with no .hex beside the binary
    fOutcome,          \* the FlashResult flash() returned
    \* ---- FlashService.testConnection ----
    tPc,               \* position inside testConnection()
    tRoot,             \* argument `workspaceRoot`
    tProgrammer,       \* what detectProgrammer() returned to testConnection()
    tDevice,           \* what detectDevice() returned to testConnection()
    tSpawned,          \* subprocesses spawned by this invocation, in order
    tChildren,         \* what the subprocesses that returned did, in order
    tOutcome,          \* how testConnection() ended
    \* ---- the build command of the extension ----
    autoFlash,         \* the setting stm32-pro.autoFlash
    cPc,               \* position inside buildProject()
    \* ---- one call of a function without state ----
    callArg,           \* the argument of the call
    callRet            \* what the call returned, once it has

envVars == <<platform, onPath, binFiles, binExec, versionOf, envChanges>>

tcVars == <<cachedToolchain, tcPc, tcLocal, tcProbed, tcPrev, tcCleared,
            tcOverlap, tcLastWarm, tcLastAfterClear, tcCacheHit>>

buildVars == <<cpus, bPc, bProfile, bSystem, bValidation, bSpawned, bChildren,
               bOutcome>>

devVars == <<workspaces, cachedDeviceInfo, devRet, devRoot, devCold>>

flashVars == <<buildDir, fPc, fRoot, fGiven, fElf, fProgrammer, fDevice,
               fDetections, fSpawned, fChildren, fHexMissing, fOutcome>>

testVars == <<tPc, tRoot, tProgrammer, tDevice, tSpawned, tChildren, tOutcome>>

callVars == <<callArg, callRet>>

cmdVars == <<autoFlash, cPc>>

vars == <<envVars, tcVars, buildVars, devVars, flashVars, testVars, callVars,
          cmdVars>>

\* undefined / null: as a string, as a text or path, as a snapshot
Null == "null"

NoText == <<>>

NoToolchain == [k \in {} |-> Null]

(***************************************************************************)
(* Bounds                                                                  *)
(***************************************************************************)
NCallers == 2
MaxEnvChanges == 1
MaxTokens == 2
MaxLines == 2
MaxNesting == 3
MaxBuildFiles == 2
MaxTail == 4
MaxUsbDevices == 2
MaxBlocks == 4

Callers == 1..NCallers

(***************************************************************************)
(* PathUtils / ProcessUtils / DetectionUtils                               *)
(***************************************************************************)
Platforms == {"linux", "darwin", "win32"}

ToolNames == {"arm-none-eabi-gcc", "gdb-multiarch", "arm-none-eabi-gdb",
              "openocd", "make", "cmake"}

\* PathUtils.getExecutableName
getExecutableName(baseName) ==
    IF platform = "win32" THEN <<baseName, ".exe">> ELSE <<baseName>>

\* ProcessUtils.commandExists
commandExists(command) == command \in onPath

\* ProcessUtils.getVersion (undefined is Null)
getVersion(command) == versionOf[command]

\* DetectionUtils.getCommonToolchainLocations: the roots are numbered in
\* list order
NumLocations == IF platform = "darwin" THEN 4 ELSE 5

getCommonToolchainLocations == 1..NumLocations

\* DetectionUtils.findInCommonLocations: the first root, in list order, where
\* <root>/bin/<toolName> exists
findInCommonLocations(toolName) ==
    LET hits == {l \in getCommonToolchainLocations : <<l, toolName>> \in binFiles}
    IN  IF hits = {} THEN NoText
        ELSE <<CHOOSE l \in hits : \A m \in hits : l <= m, toolName>>

\* PathUtils.isExecutable
isExecutable(filePath) == filePath \in binExec

(***************************************************************************)
(* ToolchainManager                                                        *)
(***************************************************************************)
\* ToolchainManager.findTool
findTool(toolName) ==
    LET executableName == getExecutableName(toolName)
        commonPath == findInCommonLocations(executableName)
    IN  IF commandExists(executableName)
        THEN [found |-> TRUE, path |-> <<0, executableName>>,
              version |-> getVersion(executableName), error |-> NoText]
        ELSE IF commonPath # NoText /\ isExecutable(commonPath)
        THEN [found |-> TRUE, path |-> commonPath,
              version |-> getVersion(executableName), error |-> NoText]
        ELSE [found |-> FALSE, path |-> NoText, version |-> Null,
              error |-> <<toolName, " not found in PATH or common locations">>]

Executables == {getExecutableName(t) : t \in ToolNames}

ToolKeys == {"gcc", "gdb", "openocd", "make", "cmake"}

\* the steps of detectToolchain, in the order of the object literal; findGdb
\* contributes the gdb-multiarch step on Linux only
FirstStep == "gcc"

StepTool(step) ==
    CASE step = "gcc" -> "arm-none-eabi-gcc"
      [] step = "gdbm" -> "gdb-multiarch"
      [] step = "gdb" -> "arm-none-eabi-gdb"
      [] step = "openocd" -> "openocd"
      [] step = "make" -> "make"
      [] step = "cmake" -> "cmake"

StepKey(step) == IF step = "gdbm" THEN "gdb" ELSE step

\* the position after a probe at `step` that returned `info`
NextStep(step, info) ==
    CASE step = "gcc" -> IF platform = "linux" THEN "gdbm" ELSE "gdb"
      [] step = "gdbm" -> IF info.found THEN "openocd" ELSE "gdb"
      [] step = "gdb" -> "openocd"
      [] step = "openocd" -> "make"
      [] step = "make" -> "cmake"
      [] step = "cmake" -> "store"

ProbeSteps == {"gcc", "gdbm", "gdb", "openocd", "make", "cmake"}

\* what the cache holds while a detection is still probing: the local object
\* is assigned to the cache only after the last probe
CacheWhileProbingMutPartial(cache, local) == local

CacheWhileProbing(cache, local) == cache

\* whether a starting call takes the cached snapshot
UseCacheMutNever(cache) == FALSE

UseCache(cache) == cache # NoToolchain

\* detectToolchain, up to the cache test
DetectToolchainStart(c) ==
    /\ tcPc[c] = "idle"
    /\ tcLastWarm' = UseCache(cachedToolchain)
    /\ tcCacheHit' = (tcCacheHit \/ UseCache(cachedToolchain))
    /\ tcLastAfterClear' = tcCleared
    /\ tcCleared' = FALSE
    /\ tcProbed' = [tcProbed EXCEPT ![c] = {}]
    /\ tcOverlap' = (tcOverlap \/ \E d \in Callers : tcPc[d] # "idle")
    /\ IF UseCache(cachedToolchain)
       THEN /\ tcPrev' = cachedToolchain
            /\ UNCHANGED <<tcPc, tcLocal>>
       ELSE /\ tcPc' = [tcPc EXCEPT ![c] = FirstStep]
            /\ tcLocal' = [tcLocal EXCEPT ![c] = NoToolchain]
            /\ UNCHANGED tcPrev
    /\ UNCHANGED <<envVars, cachedToolchain>>

\* one `await this.findTool(...)` of detectToolchain / findGdb
DetectToolchainProbe(c) ==
    /\ tcPc[c] \in ProbeSteps
    /\ LET step == tcPc[c]
           info == findTool(StepTool(step))
           local == [k \in (DOMAIN tcLocal[c]) \cup {StepKey(step)} |->
                        IF k = StepKey(step) THEN info ELSE tcLocal[c][k]]
       IN  /\ tcLocal' = [tcLocal EXCEPT ![c] = local]
           /\ tcProbed' = [tcProbed EXCEPT ![c] = @ \cup {StepTool(step)}]
           /\ tcPc' = [tcPc EXCEPT ![c] = NextStep(step, info)]
           /\ cachedToolchain' = CacheWhileProbing(cachedToolchain, local)
    /\ UNCHANGED <<envVars,
                   tcPrev, tcCleared, tcOverlap, tcLastWarm, tcLastAfterClear,
                   tcCacheHit>>

\* what `this.cachedToolchain = toolchain` leaves in the cache: the local
\* object, whatever the cache holds by then
StoreSnapshotMutFirstWins(cache, local) ==
    IF cache # NoToolchain THEN cache ELSE local

StoreSnapshot(cache, local) == local

\* detectToolchain, `this.cachedToolchain = toolchain; return toolchain`
DetectToolchainStore(c) ==
    /\ tcPc[c] = "store"
    /\ cachedToolchain' = StoreSnapshot(cachedToolchain, tcLocal[c])
    /\ tcPrev' = tcLocal[c]
    /\ tcPc' = [tcPc EXCEPT ![c] = "idle"]
    /\ tcLocal' = [tcLocal EXCEPT ![c] = NoToolchain]
    /\ UNCHANGED <<envVars,
                   tcProbed, tcCleared, tcOverlap, tcLastWarm,
                   tcLastAfterClear, tcCacheHit>>

\* ToolchainManager.clearCache
ToolchainClearCache ==
    /\ cachedToolchain' = NoToolchain
    /\ tcCleared' = TRUE
    /\ tcOverlap' = (tcOverlap \/ \E d \in Callers : tcPc[d] # "idle")
    /\ UNCHANGED <<envVars,
                   tcPc, tcLocal, tcProbed, tcPrev, tcLastWarm,
                   tcLastAfterClear, tcCacheHit>>

\* the tools the developer installs, removes or upgrades while the extension
\* runs
EnvTools == {"make"}

\* the developer installs, removes or upgrades a tool between two steps
EnvChange ==
    /\ envChanges < MaxEnvChanges
    /\ envChanges' = envChanges + 1
    /\ \E t \in EnvTools :
          LET e == getExecutableName(t)
          IN  \/ /\ onPath' = (IF e \in onPath THEN onPath \ {e}
                               ELSE onPath \cup {e})
                 /\ UNCHANGED versionOf
              \/ /\ e \in onPath
                 /\ versionOf[e] # "2.0.0"
                 /\ versionOf' = [versionOf EXCEPT ![e] = "2.0.0"]
                 /\ UNCHANGED onPath
    /\ UNCHANGED <<platform, binFiles, binExec, cachedToolchain, tcPc, tcLocal,
                   tcProbed, tcPrev, tcCleared, tcOverlap, tcLastWarm,
                   tcLastAfterClear, tcCacheHit>>

\* ToolchainManager.validateToolchain, after its detectToolchain() returned
\* `toolchain`
MissingIf(info, name) == IF ~info.found THEN <<name>> ELSE <<>>

validateToolchainMutCmake(toolchain) ==
    LET missing == MissingIf(toolchain["gcc"], "arm-none-eabi-gcc")
                   \o MissingIf(toolchain["gdb"], "gdb")
                   \o MissingIf(toolchain["openocd"], "openocd")
                   \o MissingIf(toolchain["make"], "make")
                   \o MissingIf(toolchain["cmake"], "cmake")
    IN  [allFound |-> Len(missing) = 0, missing |-> missing]

validateToolchain(toolchain) ==
    LET missing == MissingIf(toolchain["gcc"], "arm-none-eabi-gcc")
                   \o MissingIf(toolchain["gdb"], "gdb")
                   \o MissingIf(toolchain["openocd"], "openocd")
                   \o MissingIf(toolchain["make"], "make")
    IN  [allFound |-> Len(missing) = 0, missing |-> missing]

(***************************************************************************)
(* Text: a string is the sequence of its lines (what split('\n') gives),   *)
(* a line is a sequence of tokens                                          *)
(***************************************************************************)
Tokens == {"error:", "ERROR:", "warning:", " "}

SeqsUpTo(S, n) == UNION {[1..k -> S] : k \in 0..n}

Lines == SeqsUpTo(Tokens, MaxTokens)

Texts == UNION {[1..k -> Lines] : k \in 1..MaxLines}

EmptyText == <<<<>>>>

Newline == <<<<>>, <<>>>>

\* string concatenation: the last line of a continues with the first of b
Concat(a, b) ==
    SubSeq(a, 1, Len(a) - 1) \o <<a[Len(a)] \o b[1]>> \o SubSeq(b, 2, Len(b))

\* String.prototype.includes, for a marker token
includes(line, marker) == \E i \in 1..Len(line) : line[i] = marker

\* String.prototype.trim
RECURSIVE trimStart(_)
trimStart(line) ==
    IF line # <<>> /\ line[1] = " " THEN trimStart(Tail(line)) ELSE line

RECURSIVE trimEnd(_)
trimEnd(line) ==
    IF line # <<>> /\ line[Len(line)] = " "
    THEN trimEnd(SubSeq(line, 1, Len(line) - 1)) ELSE line

trim(line) == trimEnd(trimStart(line))

\* the push loops of parseErrors / parseWarnings: the lines that pass the
\* test, trimmed, in order
TrimAll(kept) == [i \in 1..Len(kept) |-> trim(kept[i])]

(***************************************************************************)
(* ProcessUtils.exec                                                       *)
(***************************************************************************)
\* what the child process did: completed with exit code 0 ("ok"), completed
\* with a non-zero exit code ("exit"), or was killed at the timeout
ExitCodes == {2}

StderrTexts == {EmptyText, <<<<"error:">>>>}

ChildResults(stdouts) ==
    [status : {"ok"}, code : {0}, stdout : stdouts, stderr : StderrTexts]
    \cup [status : {"exit"}, code : ExitCodes, stdout : stdouts, stderr : StderrTexts]
    \cup [status : {"timeout"}, code : {0}, stdout : stdouts, stderr : StderrTexts]

ErrorMessage == <<<<"Command failed">>>>

\* ProcessUtils.exec: error.code is the exit code, or null after a kill
execMutDropStdout(child) ==
    IF child.status = "ok"
    THEN [stdout |-> child.stdout, stderr |-> child.stderr, exitCode |-> 0]
    ELSE [stdout |-> EmptyText,
          stderr |-> IF child.stderr # EmptyText THEN child.stderr
                     ELSE ErrorMessage,
          exitCode |-> IF child.status = "exit" /\ child.code # 0
                       THEN child.code ELSE 1]

exec(child) ==
    IF child.status = "ok"
    THEN [stdout |-> child.stdout, stderr |-> child.stderr, exitCode |-> 0]
    ELSE [stdout |-> child.stdout,
          stderr |-> IF child.stderr # EmptyText THEN child.stderr
                     ELSE ErrorMessage,
          exitCode |-> IF child.status = "exit" /\ child.code # 0
                       THEN child.code ELSE 1]

(***************************************************************************)
(* BuildService                                                            *)
(***************************************************************************)
\* BuildService.BUILD_PROFILES
BUILD_PROFILES ==
    [O0 |-> <<"-O0", "-g3", "-DDEBUG">>,
     O1 |-> <<"-O1", "-g2">>,
     O2 |-> <<"-O2", "-g1", "-flto", "-ffunction-sections", "-fdata-sections">>,
     O3 |-> <<"-O3", "-flto", "-ffunction-sections", "-fdata-sections",
              "-funroll-loops", "-finline-functions">>,
     Os |-> <<"-Os", "-flto", "-ffunction-sections", "-fdata-sections",
              "-fno-exceptions">>,
     Og |-> <<"-Og", "-g3", "-DDEBUG">>]

\* BuildService.LINKER_FLAGS
LINKER_FLAGS == <<"-Wl,--gc-sections", "-Wl,--print-memory-usage">>

\* names that BUILD_PROFILES[name] resolves through Object.prototype: the
\* lookup is truthy but the value has no `flags`
InheritedKeys == {"constructor"}

\* the profile names the caller may pass: `profile` is a plain string
ProfileNames == DOMAIN BUILD_PROFILES \cup InheritedKeys \cup {"O9"}

BuildSystems == {"makefile", "cmake"}

\* BuildService.getParallelJobs
getParallelJobs == IF cpus > 1 THEN cpus ELSE 1

\* BuildService.parseErrors
parseErrors(output) ==
    LET Keep(line) == includes(line, "error:") \/ includes(line, "ERROR:")
    IN  TrimAll(SelectSeq(output, Keep))

\* BuildService.parseWarnings
parseWarnings(output) ==
    LET Keep(line) == includes(line, "warning:") /\ ~includes(line, "error:")
    IN  TrimAll(SelectSeq(output, Keep))

NoValidation == [allFound |-> FALSE, missing |-> <<>>]

NoOutcome == [kind |-> "none"]

Thrown(code, message, details) ==
    [kind |-> "throw", code |-> code, message |-> message, details |-> details]

\* the caller of build() and of the detectToolchain() that build() awaits
BuildCaller == 1

\* buildWithMakefile, up to `ProcessUtils.exec(buildCmd, ...)`: the command
\* it spawns, or the error it throws (re-thrown by build() as BUILD_FAILED)
MakefileCommand(profile) ==
    [kind |-> "build", tool |-> "make", jobs |-> getParallelJobs,
     opt |-> BUILD_PROFILES[profile], ldflags |-> LINKER_FLAGS]

\* buildWithCMake, up to `ProcessUtils.exec(configCmd, ...)`; the build
\* directory it creates first holds no file and is not tracked
CMakeConfigureCommand(profile) ==
    [kind |-> "configure", tool |-> "cmake", buildType |-> profile]

\* buildWithCMake, `cmake --build . -j${jobs}`
CMakeBuildCommand ==
    [kind |-> "build", tool |-> "cmake", jobs |-> getParallelJobs]

\* build(), up to `await this.toolchainManager.validateToolchain()`
Build(profile, buildSystem) ==
    /\ bPc = "idle"
    /\ DetectToolchainStart(BuildCaller)
    /\ bPc' = "validating"
    /\ bProfile' = profile
    /\ bSystem' = buildSystem
    /\ bValidation' = NoValidation
    /\ bSpawned' = <<>>
    /\ bChildren' = <<>>
    /\ bOutcome' = NoOutcome
    /\ UNCHANGED cpus

\* build(), `if (!validation.allFound)`: the toolchain check fails
ToolchainCheckFailsMutNever(validation) == FALSE

ToolchainCheckFails(validation) == ~validation.allFound

\* build(), from the return of validateToolchain() to the first subprocess
BuildValidated ==
    /\ bPc = "validating"
    /\ tcPc[BuildCaller] = "idle"
    /\ LET validation == validateToolchain(tcPrev)
       IN  /\ bValidation' = validation
           /\ IF ToolchainCheckFails(validation)
              THEN /\ bOutcome' = Thrown("TOOLCHAIN_NOT_FOUND",
                                         "Missing toolchain components",
                                         validation.missing)
                   /\ bPc' = "done"
                   /\ UNCHANGED bSpawned
              ELSE IF bSystem = "cmake"
              THEN /\ bSpawned' = Append(bSpawned, CMakeConfigureCommand(bProfile))
                   /\ bPc' = "configuring"
                   /\ UNCHANGED bOutcome
              ELSE IF bProfile \in DOMAIN BUILD_PROFILES
              THEN /\ bSpawned' = Append(bSpawned, MakefileCommand(bProfile))
                   /\ bPc' = "building"
                   /\ UNCHANGED bOutcome
              ELSE /\ bOutcome' = Thrown("BUILD_FAILED",
                                         IF bProfile \in InheritedKeys
                                         THEN "TypeError: flags is undefined"
                                         ELSE "Invalid build profile",
                                         <<>>)
                   /\ bPc' = "done"
                   /\ UNCHANGED bSpawned
    /\ UNCHANGED <<cpus, bProfile, bSystem, bChildren, envVars, tcVars>>

\* buildWithCMake, `if (configResult.exitCode !== 0)`
ConfigureFailedMutNever(configResult) == FALSE

ConfigureFailed(configResult) == configResult.exitCode # 0

\* buildWithCMake, from the return of the configure subprocess to the build
\* subprocess
BuildConfigured(stdouts) ==
    /\ bPc = "configuring"
    /\ \E child \in ChildResults(stdouts) :
          LET configResult == exec(child)
          IN  /\ bChildren' = Append(bChildren, child)
              /\ IF ConfigureFailed(configResult)
                 THEN /\ bOutcome' = Thrown("BUILD_FAILED",
                                            "CMake configuration failed", <<>>)
                      /\ bPc' = "done"
                      /\ UNCHANGED bSpawned
                 ELSE /\ bSpawned' = Append(bSpawned, CMakeBuildCommand)
                      /\ bPc' = "building"
                      /\ UNCHANGED bOutcome
    /\ UNCHANGED <<cpus, bProfile, bSystem, bValidation, envVars, tcVars>>

\* the BuildResult of buildWithMakefile for the result of the make subprocess
MakefileResult(result) ==
    IF result.exitCode # 0
    THEN [kind |-> "return", success |-> FALSE,
          output |-> Concat(Concat(result.stdout, Newline), result.stderr),
          errors |-> <<parseErrors(Concat(result.stdout, result.stderr))>>,
          warnings |-> <<>>]
    ELSE [kind |-> "return", success |-> TRUE,
          output |-> result.stdout,
          errors |-> <<>>,
          warnings |-> <<parseWarnings(Concat(result.stdout, result.stderr))>>]

\* the BuildResult of buildWithCMake for the result of the build subprocess
CMakeResult(result) ==
    IF result.exitCode # 0
    THEN [kind |-> "return", success |-> FALSE,
          output |-> Concat(Concat(result.stdout, Newline), result.stderr),
          errors |-> <<parseErrors(Concat(result.stdout, result.stderr))>>,
          warnings |-> <<>>]
    ELSE [kind |-> "return", success |-> TRUE,
          output |-> result.stdout,
          errors |-> <<>>,
          warnings |-> <<>>]

\* buildWithMakefile / buildWithCMake, from the return of the build subprocess
BuildFinished(stdouts) ==
    /\ bPc = "building"
    /\ \E child \in ChildResults(stdouts) :
          /\ bChildren' = Append(bChildren, child)
          /\ bOutcome' = IF bSystem = "cmake" THEN CMakeResult(exec(child))
                         ELSE MakefileResult(exec(child))
    /\ bPc' = "done"
    /\ UNCHANGED <<cpus, bProfile, bSystem, bValidation, bSpawned, envVars, tcVars>>

\* the caller has taken the outcome of build() or clean(); either can be
\* called again
BuildReturn ==
    /\ bPc \in {"done", "cleaned"}
    /\ bPc' = "idle"
    /\ bProfile' = "O2"
    /\ bSystem' = "makefile"
    /\ bValidation' = NoValidation
    /\ bSpawned' = <<>>
    /\ bChildren' = <<>>
    /\ bOutcome' = NoOutcome
    /\ UNCHANGED <<cpus, envVars, tcVars>>

BuildIdle ==
    /\ cpus = 1
    /\ bPc = "idle"
    /\ bProfile = "O2"
    /\ bSystem = "makefile"
    /\ bValidation = NoValidation
    /\ bSpawned = <<>>
    /\ bChildren = <<>>
    /\ bOutcome = NoOutcome

(***************************************************************************)
(* Characters: a string the code matches against a pattern is a sequence   *)
(* of one-character strings                                                *)
(***************************************************************************)
UpperSeq == <<"A", "B", "C", "D", "E", "F", "G", "H", "I", "J", "K", "L", "M",
              "N", "O", "P", "Q", "R", "S", "T", "U", "V", "W", "X", "Y", "Z">>

LowerSeq == <<"a", "b", "c", "d", "e", "f", "g", "h", "i", "j", "k", "l", "m",
              "n", "o", "p", "q", "r", "s", "t", "u", "v", "w", "x", "y", "z">>

Digits == {"0", "1", "2", "3", "4", "5", "6", "7", "8", "9"}

IsUpper(c) == \E i \in 1..26 : UpperSeq[i] = c

IsLower(c) == \E i \in 1..26 : LowerSeq[i] = c

IsDigit(c) == c \in Digits

\* [A-Z0-9]
IsUpperOrDigit(c) == IsUpper(c) \/ IsDigit(c)

\* [A-Z0-9] under the i flag
IsAlnum(c) == IsUpper(c) \/ IsLower(c) \/ IsDigit(c)

toUpperChar(c) ==
    IF IsLower(c) THEN UpperSeq[CHOOSE i \in 1..26 : LowerSeq[i] = c] ELSE c

toLowerChar(c) ==
    IF IsUpper(c) THEN LowerSeq[CHOOSE i \in 1..26 : UpperSeq[i] = c] ELSE c

\* String.prototype.toUpperCase / toLowerCase
toUpperCase(str) == [i \in 1..Len(str) |-> toUpperChar(str[i])]

toLowerCase(str) == [i \in 1..Len(str) |-> toLowerChar(str[i])]

MinOf(S) == CHOOSE x \in S : \A y \in S : x <= y

MaxOf(S) == CHOOSE x \in S : \A y \in S : x >= y

\* the literal `lit` is at position i of str
HasAt(str, i, lit) ==
    /\ i >= 1
    /\ i + Len(lit) - 1 <= Len(str)
    /\ SubSeq(str, i, i + Len(lit) - 1) = lit

\* the same under the i flag
HasAtCI(str, i, lit) ==
    /\ i >= 1
    /\ i + Len(lit) - 1 <= Len(str)
    /\ toUpperCase(SubSeq(str, i, i + Len(lit) - 1)) = toUpperCase(lit)

\* the length of the longest run of characters of class Cls from position i
RunLength(str, i, Cls(_)) ==
    MinOf({j \in i..(Len(str) + 1) : j = Len(str) + 1 \/ ~Cls(str[j])}) - i

\* String.prototype.replace(lit, ''): the first occurrence only
RemoveFirst(str, lit) ==
    LET at == {i \in 1..Len(str) : HasAt(str, i, lit)}
    IN  IF at = {} THEN str
        ELSE SubSeq(str, 1, MinOf(at) - 1)
             \o SubSeq(str, MinOf(at) + Len(lit), Len(str))

STM32 == <<"S", "T", "M", "3", "2">>

(***************************************************************************)
(* PathUtils.findFile                                                      *)
(***************************************************************************)
File(name, content) == [type |-> "file", name |-> name, content |-> content]

Dir(name, entries) == [type |-> "dir", name |-> name, entries |-> entries]

\* file names and name patterns, as the code writes them
IocPattern == <<"*", ".", "i", "o", "c">>

FlashLdSuffix == <<"_", "F", "L", "A", "S", "H", ".", "l", "d">>

LinkerScriptPattern == <<"*">> \o FlashLdSuffix

MakefileName == <<"M", "a", "k", "e", "f", "i", "l", "e">>

\* the test findFile applies to a directory entry: `file === fileName`
NameMatches(file, fileName) == file = fileName

\* the inner function `search` of findFile: the first match in readdir
\* order, descending into a directory as soon as it is met; NoText for
\* undefined
RECURSIVE search(_, _, _, _)
search(entries, depth, fileName, maxDepth) ==
    IF depth > maxDepth \/ entries = <<>> THEN NoText
    ELSE LET e == entries[1]
             here == IF e.type = "file"
                     THEN (IF NameMatches(e.name, fileName) THEN <<e>>
                           ELSE NoText)
                     ELSE search(e.entries, depth + 1, fileName, maxDepth)
         IN  IF here # NoText THEN here
             ELSE search(Tail(entries), depth, fileName, maxDepth)

\* PathUtils.findFile: the file found, as a one-element sequence, or NoText
findFile(directory, fileName, maxDepth) ==
    search(workspaces[directory], 0, fileName, maxDepth)

(***************************************************************************)
(* DeviceManager                                                           *)
(***************************************************************************)
\* the table of estimateFlashSize
sizeMap ==
    [c \in {"4", "6", "8", "B", "C", "E", "F", "G", "H", "I"} |->
        CASE c = "4" -> 16 [] c = "6" -> 32 [] c = "8" -> 64 [] c = "B" -> 128
          [] c = "C" -> 256 [] c = "E" -> 512 [] c = "F" -> 768
          [] c = "G" -> 1024 [] c = "H" -> 1536 [] c = "I" -> 2048]

\* the table of estimateRamSize
ramMap ==
    [f \in {<<"F", "0">>, <<"F", "1">>, <<"F", "2">>, <<"F", "3">>, <<"F", "4">>,
            <<"F", "7">>, <<"G", "0">>, <<"G", "4">>, <<"H", "7">>, <<"L", "0">>,
            <<"L", "1">>, <<"L", "4">>, <<"L", "5">>} |->
        CASE f = <<"F", "0">> -> 8 [] f = <<"F", "1">> -> 20
          [] f = <<"F", "2">> -> 128 [] f = <<"F", "3">> -> 40
          [] f = <<"F", "4">> -> 192 [] f = <<"F", "7">> -> 320
          [] f = <<"G", "0">> -> 36 [] f = <<"G", "4">> -> 128
          [] f = <<"H", "7">> -> 1024 [] f = <<"L", "0">> -> 8
          [] f = <<"L", "1">> -> 16 [] f = <<"L", "4">> -> 128
          [] f = <<"L", "5">> -> 256]

\* /STM32([A-Z]\d)/: the captured group of the first match, or NoText
FamilyGroup(deviceName) ==
    LET at == {i \in 1..Len(deviceName) :
                  /\ HasAt(deviceName, i, STM32)
                  /\ i + 6 <= Len(deviceName)
                  /\ IsUpper(deviceName[i + 5])
                  /\ IsDigit(deviceName[i + 6])}
    IN  IF at = {} THEN NoText
        ELSE SubSeq(deviceName, MinOf(at) + 5, MinOf(at) + 6)

\* /STM32[A-Z]\d+([A-Z])\d/: the captured group of the first match, or
\* NoText; the digits are followed by one letter and one digit
SizeCodeGroup(deviceName) ==
    LET at == {i \in 1..Len(deviceName) :
                  /\ HasAt(deviceName, i, STM32)
                  /\ i + 5 <= Len(deviceName)
                  /\ IsUpper(deviceName[i + 5])
                  /\ LET n == RunLength(deviceName, i + 6, IsDigit)
                     IN  /\ n >= 1
                         /\ i + 6 + n + 1 <= Len(deviceName)
                         /\ IsUpper(deviceName[i + 6 + n])
                         /\ IsDigit(deviceName[i + 6 + n + 1])}
    IN  IF at = {} THEN NoText
        ELSE LET i == MinOf(at)
                 n == RunLength(deviceName, i + 6, IsDigit)
             IN  <<deviceName[i + 6 + n]>>

\* DeviceManager.estimateFlashSize
estimateFlashSizeMutZero(deviceName) == 0

estimateFlashSize(deviceName) ==
    LET sizeCode == SizeCodeGroup(deviceName)
    IN  IF sizeCode = NoText THEN 512
        ELSE IF sizeCode[1] \in DOMAIN sizeMap THEN sizeMap[sizeCode[1]]
        ELSE 512

\* DeviceManager.estimateRamSize
estimateRamSizeMutDefault(deviceName) == 128

estimateRamSize(deviceName) ==
    LET group == FamilyGroup(deviceName)
        family == IF group = NoText THEN <<"F", "4">> ELSE group
    IN  IF family \in DOMAIN ramMap THEN ramMap[family] ELSE 128

\* DeviceManager.parseDeviceName
parseDeviceName(deviceName) ==
    LET group == FamilyGroup(deviceName)
        family == IF group # NoText THEN STM32 \o group
                  ELSE STM32 \o <<"F", "4">>
        line == IF group # NoText
                THEN <<"s", "t", "m", "3", "2">> \o toLowerCase(group) \o <<"x">>
                ELSE <<"s", "t", "m", "3", "2", "f", "4", "x">>
    IN  [name |-> toUpperCase(deviceName),
         family |-> family,
         line |-> line,
         flashSize |-> estimateFlashSize(deviceName),
         ramSize |-> estimateRamSize(deviceName),
         openocdTarget |-> <<"target/">> \o line \o <<".cfg">>]

\* undefined / null as a DeviceInfo
NoDevice == [name |-> NoText]

\* /Mcu\.Name=(STM32[A-Z0-9]+)/ on the text after `Mcu.Name=`
IocGroup(value) ==
    IF HasAt(value, 1, STM32) /\ RunLength(value, 6, IsUpperOrDigit) >= 1
    THEN SubSeq(value, 1, 5 + RunLength(value, 6, IsUpperOrDigit))
    ELSE NoText

\* a file content is a sequence of items [key, value]: in an .ioc file the
\* line `key=value`, in a Makefile the text `-Dvalue` (key "-D") or
\* `TARGET = value` (key "TARGET")
IocMatch(content) ==
    LET at == {i \in 1..Len(content) :
                  content[i].key = "Mcu.Name" /\ IocGroup(content[i].value) # NoText}
    IN  IF at = {} THEN NoText ELSE IocGroup(content[MinOf(at)].value)

\* DeviceManager.detectFromIoc
detectFromIoc(workspaceRoot) ==
    LET iocFile == findFile(workspaceRoot, IocPattern, 1)
    IN  IF iocFile = NoText THEN NoDevice
        ELSE IF IocMatch(iocFile[1].content) # NoText
        THEN parseDeviceName(IocMatch(iocFile[1].content))
        ELSE NoDevice

\* /-D(STM32[A-Z0-9]+xx)/i on the text after `-D`: the greedy run gives back
\* characters until `xx` follows
DefineGroup(value) ==
    IF ~HasAtCI(value, 1, STM32) THEN NoText
    ELSE LET n == RunLength(value, 6, IsAlnum)
             K == {k \in 1..(n - 2) : HasAtCI(value, 5 + k + 1, <<"x", "x">>)}
         IN  IF K = {} THEN NoText ELSE SubSeq(value, 1, 5 + MaxOf(K) + 2)

\* /TARGET\s*[=:]\s*(STM32[A-Z0-9]+)/i on the text after the separator
TargetGroup(value) ==
    IF HasAtCI(value, 1, STM32) /\ RunLength(value, 6, IsAlnum) >= 1
    THEN SubSeq(value, 1, 5 + RunLength(value, 6, IsAlnum))
    ELSE NoText

MakefileGroup(item) ==
    IF item.key = "-D" THEN DefineGroup(item.value)
    ELSE IF item.key = "TARGET" THEN TargetGroup(item.value)
    ELSE NoText

\* content.match(...) of detectFromMakefile: deviceMatch[1] || deviceMatch[2]
\* of the leftmost match
MakefileMatch(content) ==
    LET at == {i \in 1..Len(content) : MakefileGroup(content[i]) # NoText}
    IN  IF at = {} THEN NoText ELSE MakefileGroup(content[MinOf(at)])

\* DeviceManager.detectFromMakefile: only <workspaceRoot>/Makefile is read
detectFromMakefile(workspaceRoot) ==
    LET entries == workspaces[workspaceRoot]
        at == {i \in 1..Len(entries) :
                  entries[i].type = "file" /\ entries[i].name = MakefileName}
    IN  IF at = {} THEN NoDevice
        ELSE IF MakefileMatch(entries[MinOf(at)].content) # NoText
        THEN parseDeviceName(
                 RemoveFirst(MakefileMatch(entries[MinOf(at)].content),
                             <<"x", "x">>))
        ELSE NoDevice

\* /(STM32[A-Z0-9]+)_FLASH\.ld/i on a file name: the captured group of the
\* first match, or NoText
LinkerScriptGroup(fileName) ==
    LET at == {i \in 1..Len(fileName) :
                  /\ HasAtCI(fileName, i, STM32)
                  /\ RunLength(fileName, i + 5, IsAlnum) >= 1
                  /\ HasAtCI(fileName,
                             i + 5 + RunLength(fileName, i + 5, IsAlnum),
                             FlashLdSuffix)}
    IN  IF at = {} THEN NoText
        ELSE SubSeq(fileName, MinOf(at),
                    MinOf(at) + 4 + RunLength(fileName, MinOf(at) + 5, IsAlnum))

\* DeviceManager.detectFromLinkerScript
detectFromLinkerScript(workspaceRoot) ==
    LET ldFile == findFile(workspaceRoot, LinkerScriptPattern, 2)
    IN  IF ldFile = NoText THEN NoDevice
        ELSE IF LinkerScriptGroup(ldFile[1].name) # NoText
        THEN parseDeviceName(LinkerScriptGroup(ldFile[1].name))
        ELSE NoDevice

\* the order in which detectDevice tries its sources
FirstDetected(iocDevice, makefileDevice, linkerDevice) ==
    IF iocDevice # NoDevice THEN iocDevice
    ELSE IF makefileDevice # NoDevice THEN makefileDevice
    ELSE linkerDevice

\* detectDevice, `if (this.cachedDeviceInfo)`: the one slot is tested
\* whatever the root asked for
DeviceCachedMutKeyed(workspaceRoot) ==
    cachedDeviceInfo # NoDevice /\ devRoot = workspaceRoot

DeviceCached(workspaceRoot) == cachedDeviceInfo # NoDevice

\* DeviceManager.detectDevice. The three detectFrom* helpers read the files
\* synchronously and every caller awaits the call, so a call runs to its
\* end before another one starts.
detectDevice(workspaceRoot) ==
    /\ devRoot' = workspaceRoot
    /\ devCold' = ~DeviceCached(workspaceRoot)
    /\ IF DeviceCached(workspaceRoot)
       THEN /\ devRet' = cachedDeviceInfo
            /\ UNCHANGED cachedDeviceInfo
       ELSE LET found == FirstDetected(detectFromIoc(workspaceRoot),
                                       detectFromMakefile(workspaceRoot),
                                       detectFromLinkerScript(workspaceRoot))
            IN  /\ devRet' = found
                /\ cachedDeviceInfo' = found
    /\ UNCHANGED workspaces

\* DeviceManager.clearCache
DeviceClearCache ==
    /\ cachedDeviceInfo' = NoDevice
    /\ UNCHANGED <<workspaces, devRet, devRoot, devCold>>

\* workspace roots, and the device state of a program that detects nothing
Roots == {"A", "B"}

DevIdle ==
    /\ workspaces = [r \in Roots |-> <<>>]
    /\ cachedDeviceInfo = NoDevice
    /\ devRet = NoDevice
    /\ devRoot = "A"
    /\ devCold = FALSE

(***************************************************************************)
(* Paths and the build output directory                                    *)
(***************************************************************************)
Range(seq) == {seq[i] : i \in 1..Len(seq)}

\* String.prototype.endsWith
endsWith(str, suffix) == HasAt(str, Len(str) - Len(suffix) + 1, suffix)

\* String.prototype.replace with a string pattern: the first occurrence only
replace(str, lit, rep) ==
    LET at == {i \in 1..Len(str) : HasAt(str, i, lit)}
    IN  IF at = {} THEN str
        ELSE SubSeq(str, 1, MinOf(at) - 1) \o rep
             \o SubSeq(str, MinOf(at) + Len(lit), Len(str))

\* path.join of a directory and a name
pathJoin(dir, name) == dir \o <<"/">> \o name

\* the position of the last separator of a path
LastSeparator(p) == MaxOf({0} \cup {i \in 1..Len(p) : p[i] = "/"})

\* path.dirname
dirname(p) == SubSeq(p, 1, LastSeparator(p) - 1)

\* path.basename
basename(p) == SubSeq(p, LastSeparator(p) + 1, Len(p))

ElfExt == <<".", "e", "l", "f">>

HexExt == <<".", "h", "e", "x">>

\* path.join(workspaceRoot, 'build')
BuildDirOf(workspaceRoot) ==
    pathJoin(<<workspaceRoot>>, <<"b", "u", "i", "l", "d">>)

\* 'jlink_flash.jlink'
ScriptName ==
    <<"j", "l", "i", "n", "k", "_", "f", "l", "a", "s", "h",
      ".", "j", "l", "i", "n", "k">>

\* the directory of path p is the build directory of a root, and it exists
InBuildDir(dirs, p) ==
    /\ p # NoText
    /\ p[1] \in Roots
    /\ dirname(p) = BuildDirOf(p[1])
    /\ dirs[p[1]].exists

\* fs.existsSync of a file path, in the directories `dirs`
FileExists(dirs, p) ==
    InBuildDir(dirs, p) /\ basename(p) \in Range(dirs[p[1]].files)

\* the directories after a file is created or truncated at path p
AddFile(dirs, p) ==
    IF InBuildDir(dirs, p) /\ ~FileExists(dirs, p)
    THEN [dirs EXCEPT ![p[1]].files = Append(@, basename(p))]
    ELSE dirs

\* the directories after fs.unlinkSync(p); a missing p throws, and the
\* caller swallows it
RemoveFileMutKeep(dirs, p) == dirs

RemoveFile(dirs, p) ==
    IF FileExists(dirs, p)
    THEN [dirs EXCEPT ![p[1]].files =
              SelectSeq(@, LAMBDA name : name # basename(p))]
    ELSE dirs

(***************************************************************************)
(* BuildService.parseMemoryUsage                                           *)
(***************************************************************************)
\* \s, \w and [\d.]
IsSpace(c) == c \in {" ", "\n", "\t"}

IsWord(c) == IsAlnum(c) \/ c = "_"

IsDigitOrDot(c) == IsDigit(c) \/ c = "."

\* `cls+` at position i: the position after the longest run, or 0 when
\* nothing matches (i = 0: what precedes did not match)
Plus(str, i, Cls(_)) ==
    IF i = 0 \/ i > Len(str) THEN 0
    ELSE IF RunLength(str, i, Cls) = 0 THEN 0
    ELSE i + RunLength(str, i, Cls)

DigitValue(c) == CHOOSE n \in 0..9 : <<c>> = SubSeq(
    <<"0", "1", "2", "3", "4", "5", "6", "7", "8", "9">>, n + 1, n + 1)

\* parseInt on a string of digits
RECURSIVE parseInt(_)
parseInt(str) ==
    IF str = <<>> THEN 0
    ELSE 10 * parseInt(SubSeq(str, 1, Len(str) - 1)) + DigitValue(str[Len(str)])

RECURSIVE TrimZeros(_)
TrimZeros(str) ==
    IF str # <<>> /\ str[Len(str)] = "0"
    THEN TrimZeros(SubSeq(str, 1, Len(str) - 1))
    ELSE str

\* parseFloat on a string of [\d.]+: the number written by the longest
\* prefix that is a decimal literal, as its whole part and its fraction
\* digits; NaN when there is none
parseFloatMutInt(str) ==
    [nan |-> FALSE, whole |-> parseInt(SubSeq(str, 1, RunLength(str, 1, IsDigit))),
     frac |-> <<>>]

parseFloat(str) ==
    LET n1 == RunLength(str, 1, IsDigit)
        dot == n1 < Len(str) /\ str[n1 + 1] = "."
        n2 == IF dot THEN RunLength(str, n1 + 2, IsDigit) ELSE 0
    IN  IF n1 = 0 /\ n2 = 0
        THEN [nan |-> TRUE, whole |-> 0, frac |-> <<>>]
        ELSE [nan |-> FALSE,
              whole |-> parseInt(SubSeq(str, 1, n1)),
              frac |-> TrimZeros(SubSeq(str, n1 + 2, n1 + 1 + n2))]

\* \s+(\d+)\s+\w+\s+(\d+)\s+\w+\s+([\d.]+)% at position p: each class is
\* disjoint from the one that follows it, so every run is the longest one
RegionMatch(str, p) ==
    LET usedAt == Plus(str, p, IsSpace)
        usedEnd == Plus(str, usedAt, IsDigit)
        totalAt == Plus(str, Plus(str, Plus(str, usedEnd, IsSpace), IsWord),
                        IsSpace)
        totalEnd == Plus(str, totalAt, IsDigit)
        pctAt == Plus(str, Plus(str, Plus(str, totalEnd, IsSpace), IsWord),
                      IsSpace)
        pctEnd == Plus(str, pctAt, IsDigitOrDot)
    IN  IF pctEnd # 0 /\ HasAt(str, pctEnd, <<"%">>)
        THEN [ok |-> TRUE,
              used |-> SubSeq(str, usedAt, usedEnd - 1),
              total |-> SubSeq(str, totalAt, totalEnd - 1),
              percentage |-> SubSeq(str, pctAt, pctEnd - 1),
              end |-> pctEnd + 1]
        ELSE [ok |-> FALSE, used |-> <<>>, total |-> <<>>, percentage |-> <<>>,
              end |-> 0]

\* `Memory region\s+Used Size` at position h: the position after it, or 0
HeaderEnd(str, h) ==
    LET usedAt == IF HasAt(str, h, <<"M", "e", "m", "o", "r", "y", " ", "r", "e", "g", "i", "o", "n">>)
                  THEN Plus(str, h + Len(<<"M", "e", "m", "o", "r", "y", " ", "r", "e", "g", "i", "o", "n">>), IsSpace) ELSE 0
    IN  IF usedAt # 0 /\ HasAt(str, usedAt, <<"U", "s", "e", "d", " ", "S", "i", "z", "e">>)
        THEN usedAt + Len(<<"U", "s", "e", "d", " ", "S", "i", "z", "e">>) ELSE 0

Undefined == [kind |-> "undefined"]

\* one section of a MemoryUsage
Section(m) ==
    [used |-> parseInt(m.used), total |-> parseInt(m.total),
     percentage |-> parseFloat(m.percentage)]

\* parseMemoryUsage: the match starts at the leftmost header that a FLASH row
\* and then a RAM row follow; each `[\s\S]*?` stops at the first row after
\* which the rest of the pattern still matches
parseMemoryUsage(output) ==
    LET RamAt(r) == /\ HasAt(output, r, <<"R", "A", "M", ":">>)
                    /\ RegionMatch(output, r + 4).ok
        FlashRow(f) == RegionMatch(output, f + 6)
        FlashAt(f) == /\ HasAt(output, f, <<"F", "L", "A", "S", "H", ":">>)
                      /\ FlashRow(f).ok
                      /\ \E r \in FlashRow(f).end..Len(output) : RamAt(r)
        FlashAfter(h) == {f \in HeaderEnd(output, h)..Len(output) : FlashAt(f)}
        heads == {h \in 1..Len(output) :
                     HeaderEnd(output, h) # 0 /\ FlashAfter(h) # {}}
    IN  IF heads = {} THEN Undefined
        ELSE LET f == MinOf(FlashAfter(MinOf(heads)))
                 r == MinOf({x \in FlashRow(f).end..Len(output) : RamAt(x)})
             IN  [kind |-> "memoryUsage",
                  flash |-> Section(FlashRow(f)),
                  ram |-> Section(RegionMatch(output, r + 4))]

(***************************************************************************)
(* DetectionUtils.detectProgrammer                                         *)
(***************************************************************************)
\* str.includes(lit) on character sequences
includesChars(str, lit) == \E i \in 1..Len(str) : HasAt(str, i, lit)

\* detectProgrammerLinux / MacOS / Windows on the result of the enumeration
\* command: the exit code is not looked at, and as exec never throws the
\* catch blocks are never entered
detectProgrammerMutJLinkFirst(plat, result) ==
    LET output == toLowerCase(result.stdout)
    IN  IF \/ includesChars(output, <<"j", "-", "l", "i", "n", "k">>)
           \/ includesChars(output, <<"s", "e", "g", "g", "e", "r">>)
        THEN [type |-> "jlink", interface |-> "interface/jlink.cfg"]
        ELSE IF \/ includesChars(output, <<"s", "t", "-", "l", "i", "n", "k">>)
                \/ /\ plat # "linux"
                   /\ includesChars(output, <<"s", "t", "m", "3", "2">>)
        THEN [type |-> "stlink", interface |-> "interface/stlink.cfg"]
        ELSE IF includesChars(output,
                              <<"c", "m", "s", "i", "s", "-", "d", "a", "p">>)
        THEN [type |-> "cmsis-dap", interface |-> "interface/cmsis-dap.cfg"]
        ELSE [type |-> "unknown", interface |-> "interface/stlink.cfg"]

detectProgrammer(plat, result) ==
    LET output == toLowerCase(result.stdout)
    IN  IF \/ includesChars(output, <<"s", "t", "-", "l", "i", "n", "k">>)
           \/ /\ plat # "linux"
              /\ includesChars(output, <<"s", "t", "m", "3", "2">>)
        THEN [type |-> "stlink", interface |-> "interface/stlink.cfg"]
        ELSE IF \/ includesChars(output, <<"j", "-", "l", "i", "n", "k">>)
                \/ includesChars(output, <<"s", "e", "g", "g", "e", "r">>)
        THEN [type |-> "jlink", interface |-> "interface/jlink.cfg"]
        ELSE IF includesChars(output,
                              <<"c", "m", "s", "i", "s", "-", "d", "a", "p">>)
        THEN [type |-> "cmsis-dap", interface |-> "interface/cmsis-dap.cfg"]
        ELSE [type |-> "unknown", interface |-> "interface/stlink.cfg"]

(***************************************************************************)
(* FlashService                                                            *)
(***************************************************************************)
\* the descriptors detectProgrammer returns
ProgrammerInfos ==
    {[type |-> "stlink", interface |-> "interface/stlink.cfg"],
     [type |-> "jlink", interface |-> "interface/jlink.cfg"],
     [type |-> "cmsis-dap", interface |-> "interface/cmsis-dap.cfg"],
     [type |-> "unknown", interface |-> "interface/stlink.cfg"]}

NoProgrammer == [type |-> "none", interface |-> "none"]

\* the caller of flash() and of the detectToolchain() it awaits
FlashCaller == 1

\* a message as a one-line text
Message(m) == <<<<m>>>>

\* FlashService.findElfFile: the first entry of the build directory whose
\* name ends in .elf
findElfFileMutFirstEntry(workspaceRoot) ==
    IF ~buildDir[workspaceRoot].exists \/ buildDir[workspaceRoot].files = <<>>
    THEN NoText
    ELSE pathJoin(BuildDirOf(workspaceRoot), buildDir[workspaceRoot].files[1])

findElfFile(workspaceRoot) ==
    IF ~buildDir[workspaceRoot].exists THEN NoText
    ELSE LET files == buildDir[workspaceRoot].files
             at == {i \in 1..Len(files) : endsWith(files[i], ElfExt)}
         IN  IF at = {} THEN NoText
             ELSE pathJoin(BuildDirOf(workspaceRoot), files[MinOf(at)])

\* the catch block of flash(): the FlashResult for a thrown error
FlashCaught(message) ==
    /\ fOutcome' = [kind |-> "return", success |-> FALSE,
                    output |-> EmptyText, error |-> Message(message)]
    /\ fPc' = "done"

\* the text contains the marker
TextIncludes(text, marker) == \E i \in 1..Len(text) : includes(text[i], marker)

\* the commands FlashService spawns
OpenOcdCommand(openocdPath, programmer, targetConfig, elfFile) ==
    [tool |-> "openocd", path |-> openocdPath,
     interface |-> programmer.interface, target |-> targetConfig,
     command |-> <<"program", elfFile, "verify", "reset", "exit">>]

ObjcopyCommand(elfFile, hexFile) ==
    [tool |-> "arm-none-eabi-objcopy", format |-> "ihex",
     input |-> elfFile, output |-> hexFile]

JLinkCommand(deviceName, scriptPath) ==
    [tool |-> "JLinkExe",
     device |-> IF deviceName # NoText THEN deviceName
                ELSE STM32 \o <<"F", "4", "0", "7", "V", "G">>,
     interface |-> "SWD", speed |-> 4000, script |-> scriptPath]

\* the hex file of flashWithJLink
HexFileOf(elfFile) == replace(elfFile, ElfExt, HexExt)

\* the .hex counterpart of a binary: the same path with the last extension
\* replaced by .hex (what fHexMissing records; flashWithJLink itself uses
\* HexFileOf)
HexCounterpart(elfFile) ==
    LET dots == {i \in (LastSeparator(elfFile) + 1)..Len(elfFile) :
                    elfFile[i] = "."}
    IN  IF dots = {} THEN elfFile \o HexExt
        ELSE SubSeq(elfFile, 1, MaxOf(dots) - 1) \o HexExt

\* flash(), the switch on programmer.type: the kinds flashed by flashWithJLink
JLinkKindsMutCmsisDap == {"jlink", "cmsis-dap"}

JLinkKinds == {"jlink"}

\* flash(), up to `await DetectionUtils.detectProgrammer()`
Flash(workspaceRoot, elfFile) ==
    /\ fPc = "idle"
    /\ fRoot' = workspaceRoot
    /\ fGiven' = elfFile
    /\ fProgrammer' = NoProgrammer
    /\ fDevice' = NoDevice
    /\ fSpawned' = <<>>
    /\ fChildren' = <<>>
    /\ fHexMissing' = FALSE
    /\ LET elf == IF elfFile = NoText THEN findElfFile(workspaceRoot)
                  ELSE elfFile
       IN  /\ fElf' = elf
           /\ IF elf = NoText
              THEN /\ FlashCaught("No .elf file found in build directory")
                   /\ fDetections' = 0
              ELSE /\ fPc' = "detecting"
                   /\ fDetections' = 1
                   /\ fOutcome' = NoOutcome
    /\ UNCHANGED <<buildDir, envVars, tcVars, devVars>>

\* flashWithJLink, from `fs.writeFileSync(scriptPath, ...)` to the spawn of
\* the commander, in the directories `dirs`
RunCommander(dirs, elfFile, deviceName) ==
    LET scriptPath == pathJoin(dirname(elfFile), ScriptName)
    IN  IF InBuildDir(dirs, scriptPath)
        THEN /\ buildDir' = AddFile(dirs, scriptPath)
             /\ fSpawned' = Append(fSpawned, JLinkCommand(deviceName, scriptPath))
             /\ fPc' = "jlink"
             /\ UNCHANGED fOutcome
        ELSE /\ buildDir' = dirs
             /\ FlashCaught("ENOENT: no such file or directory")
             /\ UNCHANGED fSpawned

\* flashWithJLink, up to its first subprocess
flashWithJLink(elfFile, deviceName) ==
    LET hexFile == HexFileOf(elfFile)
    IN  /\ fHexMissing' = ~FileExists(buildDir, HexCounterpart(elfFile))
        /\ IF ~FileExists(buildDir, hexFile)
           THEN /\ fSpawned' = Append(fSpawned, ObjcopyCommand(elfFile, hexFile))
                /\ fPc' = "objcopy"
                /\ UNCHANGED <<buildDir, fOutcome>>
           ELSE RunCommander(buildDir, elfFile, deviceName)

\* flash(), from the return of detectProgrammer() to the first await of the
\* flashing method
FlashProgrammerDetected ==
    /\ fPc = "detecting"
    /\ \E programmer \in ProgrammerInfos :
          /\ fProgrammer' = programmer
          /\ IF programmer.type = "unknown"
             THEN /\ FlashCaught("No programmer detected")
                  /\ UNCHANGED <<buildDir, fDevice, fSpawned, fHexMissing,
                                 tcVars, devVars>>
             ELSE /\ detectDevice(fRoot)
                  /\ fDevice' = devRet'
                  /\ IF programmer.type \in JLinkKinds
                     THEN /\ flashWithJLink(fElf, devRet'.name)
                          /\ UNCHANGED tcVars
                     ELSE /\ DetectToolchainStart(FlashCaller)
                          /\ fPc' = "openocdPath"
                          /\ UNCHANGED <<buildDir, fSpawned, fOutcome, fHexMissing>>
    /\ UNCHANGED <<fRoot, fGiven, fElf, fDetections, fChildren, envVars>>

\* flash(), `deviceInfo?.openocdTarget || 'target/stm32f4x.cfg'`
TargetConfigOf(deviceInfo) ==
    IF deviceInfo # NoDevice THEN deviceInfo.openocdTarget
    ELSE <<"target/", "s", "t", "m", "3", "2", "f", "4", "x", ".cfg">>

\* ToolchainManager.getOpenOcdPath, on the snapshot detectToolchain returned
getOpenOcdPath(toolchain) ==
    IF toolchain.openocd.found THEN toolchain.openocd.path ELSE NoText

\* flashWithOpenOCD, from the return of getOpenOcdPath() to the subprocess
FlashOpenOcdPath ==
    /\ fPc = "openocdPath"
    /\ tcPc[FlashCaller] = "idle"
    /\ LET openocdPath == getOpenOcdPath(tcPrev)
       IN  IF openocdPath = NoText
           THEN /\ FlashCaught("OpenOCD not found. Please install OpenOCD.")
                /\ UNCHANGED fSpawned
           ELSE /\ fSpawned' = Append(fSpawned,
                                      OpenOcdCommand(openocdPath, fProgrammer,
                                                     TargetConfigOf(fDevice), fElf))
                /\ fPc' = "openocd"
                /\ UNCHANGED fOutcome
    /\ UNCHANGED <<buildDir, fRoot, fGiven, fElf, fProgrammer, fDevice,
                   fDetections, fChildren, fHexMissing,
                   envVars, tcVars, devVars>>

\* the FlashResult of flashWithOpenOCD for the result of the subprocess
OpenOcdResult(result) ==
    [kind |-> "return",
     success |-> result.exitCode = 0,
     output |-> result.stdout,
     error |-> IF result.exitCode # 0 THEN result.stderr ELSE NoText]

\* flashWithOpenOCD and flash(), from the return of the subprocess
FlashOpenOcdFinished(stdouts) ==
    /\ fPc = "openocd"
    /\ \E child \in ChildResults(stdouts) :
          /\ fChildren' = Append(fChildren, child)
          /\ fOutcome' = OpenOcdResult(exec(child))
    /\ fPc' = "done"
    /\ UNCHANGED <<buildDir, fRoot, fGiven, fElf, fProgrammer, fDevice,
                   fDetections, fSpawned, fHexMissing,
                   envVars, tcVars, devVars>>

\* flashWithJLink, `if (objcopyResult.exitCode !== 0)`
ConversionFailed(objcopyResult) == objcopyResult.exitCode # 0

\* flashWithJLink, from the return of the conversion to the commander; a
\* conversion that completes with exit code 0 has written the hex file
FlashConverted(stdouts) ==
    /\ fPc = "objcopy"
    /\ \E child \in ChildResults(stdouts) :
          LET dirs == IF child.status = "ok"
                      THEN AddFile(buildDir, HexFileOf(fElf))
                      ELSE buildDir
          IN  /\ fChildren' = Append(fChildren, child)
              /\ IF ConversionFailed(exec(child))
                 THEN /\ buildDir' = dirs
                      /\ FlashCaught("Failed to convert ELF to HEX for J-Link")
                      /\ UNCHANGED fSpawned
                 ELSE RunCommander(dirs, fElf, fDevice.name)
    /\ UNCHANGED <<fRoot, fGiven, fElf, fProgrammer, fDevice, fDetections,
                   fHexMissing, envVars, tcVars, devVars>>

\* the FlashResult of flashWithJLink for the result of the commander
JLinkResult(result) ==
    [kind |-> "return",
     success |-> result.exitCode = 0 /\ TextIncludes(result.stdout, "O.K."),
     output |-> result.stdout,
     error |-> IF result.exitCode # 0 THEN result.stderr ELSE NoText]

\* flashWithJLink and flash(), from the return of the commander
FlashCommanderFinished(stdouts) ==
    /\ fPc = "jlink"
    /\ \E child \in ChildResults(stdouts) :
          /\ fChildren' = Append(fChildren, child)
          /\ fOutcome' = JLinkResult(exec(child))
    /\ buildDir' = RemoveFile(buildDir, pathJoin(dirname(fElf), ScriptName))
    /\ fPc' = "done"
    /\ UNCHANGED <<fRoot, fGiven, fElf, fProgrammer, fDevice, fDetections,
                   fSpawned, fHexMissing, envVars, tcVars, devVars>>

\* the caller has taken the FlashResult; flash() can be called again
FlashReturn ==
    /\ fPc = "done"
    /\ fPc' = "idle"
    /\ fRoot' = "A"
    /\ fGiven' = NoText
    /\ fElf' = NoText
    /\ fProgrammer' = NoProgrammer
    /\ fDevice' = NoDevice
    /\ fDetections' = 0
    /\ fSpawned' = <<>>
    /\ fChildren' = <<>>
    /\ fHexMissing' = FALSE
    /\ fOutcome' = NoOutcome
    /\ UNCHANGED <<buildDir, envVars, tcVars, devVars>>

NoBuildDirs == [r \in Roots |-> [exists |-> FALSE, files |-> <<>>]]

FlashIdle ==
    /\ buildDir = NoBuildDirs
    /\ fPc = "idle"
    /\ fRoot = "A"
    /\ fGiven = NoText
    /\ fElf = NoText
    /\ fProgrammer = NoProgrammer
    /\ fDevice = NoDevice
    /\ fDetections = 0
    /\ fSpawned = <<>>
    /\ fChildren = <<>>
    /\ fHexMissing = FALSE
    /\ fOutcome = NoOutcome

(***************************************************************************)
(* BuildService.clean                                                      *)
(***************************************************************************)
CleanCommand == [kind |-> "clean", tool |-> "make"]

\* what clean() resolves to: nothing; `log` is the last line it wrote to the
\* output channel
Void(log) == [kind |-> "void", log |-> log]

\* clean(), up to the return (cmake) or to `ProcessUtils.exec('make clean')`
Clean(workspaceRoot, buildSystem) ==
    /\ bPc = "idle"
    /\ bProfile' = "O2"
    /\ bSystem' = buildSystem
    /\ bValidation' = NoValidation
    /\ bChildren' = <<>>
    /\ IF buildSystem = "cmake"
       THEN /\ buildDir' = [buildDir EXCEPT ![workspaceRoot] =
                               [exists |-> FALSE, files |-> <<>>]]
            /\ bSpawned' = <<>>
            /\ bOutcome' = Void(IF buildDir[workspaceRoot].exists
                                THEN "Removed build directory"
                                ELSE "=== Cleaning Build ===")
            /\ bPc' = "cleaned"
       ELSE /\ bSpawned' = <<CleanCommand>>
            /\ bOutcome' = NoOutcome
            /\ bPc' = "cleaning"
            /\ UNCHANGED buildDir
    /\ UNCHANGED <<cpus, envVars, tcVars>>

\* clean(), from the return of `make clean`: the exit code only selects the
\* line written to the output channel
CleanFinished(stdouts) ==
    /\ bPc = "cleaning"
    /\ \E child \in ChildResults(stdouts) :
          /\ bChildren' = Append(bChildren, child)
          /\ bOutcome' = Void(IF exec(child).exitCode = 0
                              THEN "Clean successful" ELSE "Clean failed")
    /\ bPc' = "cleaned"
    /\ UNCHANGED <<cpus, bProfile, bSystem, bValidation, bSpawned, buildDir,
                   envVars, tcVars>>

(***************************************************************************)
(* FlashService.testConnection                                             *)
(***************************************************************************)
\* the caller of testConnection() and of the detectToolchain() it awaits
TestCaller == 2

\* the command testConnection spawns
TestCommand(openocdPath, programmer, targetConfig) ==
    [tool |-> "openocd", path |-> openocdPath,
     interface |-> programmer.interface, target |-> targetConfig,
     command |-> <<"init; reset halt; exit">>]

\* `return true` / `return false` of testConnection
Returned(value) == [kind |-> "return", value |-> value]

\* testConnection(), up to `await DetectionUtils.detectProgrammer()`
TestConnection(workspaceRoot) ==
    /\ tPc = "idle"
    /\ tPc' = "detecting"
    /\ tRoot' = workspaceRoot
    /\ tProgrammer' = NoProgrammer
    /\ tDevice' = NoDevice
    /\ tSpawned' = <<>>
    /\ tChildren' = <<>>
    /\ tOutcome' = NoOutcome
    /\ UNCHANGED <<envVars, tcVars, devVars>>

\* testConnection(), from the return of detectProgrammer() to
\* `await this.toolchainManager.getOpenOcdPath()`
TestProgrammerDetected ==
    /\ tPc = "detecting"
    /\ \E programmer \in ProgrammerInfos :
          /\ tProgrammer' = programmer
          /\ IF programmer.type = "unknown"
             THEN /\ tOutcome' = Returned(FALSE)
                  /\ tPc' = "done"
                  /\ UNCHANGED <<tDevice, tcVars, devVars>>
             ELSE /\ detectDevice(tRoot)
                  /\ tDevice' = devRet'
                  /\ DetectToolchainStart(TestCaller)
                  /\ tPc' = "openocdPath"
                  /\ UNCHANGED tOutcome
    /\ UNCHANGED <<tRoot, tSpawned, tChildren, envVars>>

\* testConnection(), `if (!openocdPath)`: no daemon to invoke
NoOpenOcdPathMutNever(openocdPath) == FALSE

NoOpenOcdPath(openocdPath) == openocdPath = NoText

\* testConnection(), from the return of getOpenOcdPath() to the subprocess
TestOpenOcdPath ==
    /\ tPc = "openocdPath"
    /\ tcPc[TestCaller] = "idle"
    /\ LET openocdPath == getOpenOcdPath(tcPrev)
       IN  IF NoOpenOcdPath(openocdPath)
           THEN /\ tOutcome' = Returned(FALSE)
                /\ tPc' = "done"
                /\ UNCHANGED tSpawned
           ELSE /\ tSpawned' = Append(tSpawned,
                                      TestCommand(openocdPath, tProgrammer,
                                                  TargetConfigOf(tDevice)))
                /\ tPc' = "openocd"
                /\ UNCHANGED tOutcome
    /\ UNCHANGED <<tRoot, tProgrammer, tDevice, tChildren,
                   envVars, tcVars, devVars>>

\* testConnection(), from the return of the subprocess
TestFinished(stdouts) ==
    /\ tPc = "openocd"
    /\ \E child \in ChildResults(stdouts) :
          /\ tChildren' = Append(tChildren, child)
          /\ tOutcome' = Returned(exec(child).exitCode = 0)
    /\ tPc' = "done"
    /\ UNCHANGED <<tRoot, tProgrammer, tDevice, tSpawned,
                   envVars, tcVars, devVars>>

\* the caller has taken the answer; testConnection() can be called again
TestReturn ==
    /\ tPc = "done"
    /\ tPc' = "idle"
    /\ tRoot' = "A"
    /\ tProgrammer' = NoProgrammer
    /\ tDevice' = NoDevice
    /\ tSpawned' = <<>>
    /\ tChildren' = <<>>
    /\ tOutcome' = NoOutcome
    /\ UNCHANGED <<envVars, tcVars, devVars>>

TestIdle ==
    /\ tPc = "idle"
    /\ tRoot = "A"
    /\ tProgrammer = NoProgrammer
    /\ tDevice = NoDevice
    /\ tSpawned = <<>>
    /\ tChildren = <<>>
    /\ tOutcome = NoOutcome

\* no call of a function without state is being examined
CallIdle ==
    /\ callArg = NoText
    /\ callRet = NoText

\* the build command is not running
CmdIdle ==
    /\ autoFlash = FALSE
    /\ cPc = "idle"

(***************************************************************************)
(* extension: the build command                                            *)
(***************************************************************************)
\* getWorkspace(): the first workspace folder
getWorkspace == "A"

\* buildProject(), `if (result.success)` and `if (ConfigManager.getAutoFlash())`
\* inside the try block: a thrown error reaches neither
ShouldFlashMutAlways(result) == autoFlash

ShouldFlash(result) ==
    /\ result.kind = "return"
    /\ result.success
    /\ autoFlash

\* buildProject(), up to `await buildService.build(ws, profile, buildSystem)`
BuildProject(profile, buildSystem) ==
    /\ cPc = "idle"
    /\ Build(profile, buildSystem)
    /\ cPc' = "building"
    /\ UNCHANGED autoFlash

\* buildProject(), from the return of build() to the return of the command or
\* to `await flashFirmware()`, which calls flash(ws)
BuildProjectBuilt ==
    /\ cPc = "building"
    /\ bPc = "done"
    /\ IF ShouldFlash(bOutcome)
       THEN /\ Flash(getWorkspace, NoText)
            /\ cPc' = "flashing"
       ELSE /\ cPc' = "done"
            /\ UNCHANGED <<flashVars, envVars, tcVars, devVars>>
    /\ UNCHANGED <<autoFlash, buildVars>>

\* the command has ended, with its flash if it started one; it can be run
\* again
BuildProjectReturn ==
    /\ \/ cPc = "done"
       \/ cPc = "flashing" /\ fPc = "done"
    /\ cPc' = "idle"
    /\ BuildReturn
    /\ IF fPc = "done" THEN FlashReturn ELSE UNCHANGED <<flashVars, devVars>>
    /\ UNCHANGED autoFlash

\* the user changes the setting
SetAutoFlash(value) ==
    /\ autoFlash # value
    /\ autoFlash' = value
    /\ UNCHANGED <<cPc, envVars, tcVars, buildVars, devVars, flashVars,
                   testVars, callVars>>

(***************************************************************************)
(* Toolchain detection under concurrent callers                            *)
(***************************************************************************)
Exe(t) == IF platform = "win32" THEN <<t, ".exe">> ELSE <<t>>

\* the search paths the concurrent specification starts from
PathChoices ==
    { ToolNames, {"arm-none-eabi-gcc", "cmake"} }

\* the installation roots the concurrent specification starts from
BinChoices == { {}, {1, 2} }

EnvInit(paths, bins) ==
    /\ platform \in Platforms
    /\ \E ts \in paths : onPath = {Exe(t) : t \in ts}
    /\ \E ls \in bins :
          /\ binFiles = {<<l, Exe("openocd")>> : l \in ls}
          /\ binExec = {<<l, Exe("openocd")>> : l \in ls \ {1}}
    /\ versionOf = [e \in {Exe(t) : t \in ToolNames} |-> "1.0.0"]
    /\ envChanges = 0

TcInit ==
    /\ cachedToolchain = NoToolchain
    /\ tcPc = [c \in Callers |-> "idle"]
    /\ tcLocal = [c \in Callers |-> NoToolchain]
    /\ tcProbed = [c \in Callers |-> {}]
    /\ tcPrev = NoToolchain
    /\ tcCleared = FALSE
    /\ tcOverlap = FALSE
    /\ tcLastWarm = FALSE
    /\ tcLastAfterClear = FALSE
    /\ tcCacheHit = FALSE

InitToolchain == EnvInit(PathChoices, BinChoices) /\ TcInit /\ BuildIdle /\ DevIdle /\ FlashIdle
    /\ TestIdle /\ CallIdle /\ CmdIdle

NextToolchain ==
    \/ \E c \in Callers : DetectToolchainStart(c) /\ UNCHANGED <<buildVars, devVars, flashVars, testVars, callVars, cmdVars>>
    \/ \E c \in Callers : DetectToolchainProbe(c) /\ UNCHANGED <<buildVars, devVars, flashVars, testVars, callVars, cmdVars>>
    \/ \E c \in Callers : DetectToolchainStore(c) /\ UNCHANGED <<buildVars, devVars, flashVars, testVars, callVars, cmdVars>>
    \/ ToolchainClearCache /\ UNCHANGED <<buildVars, devVars, flashVars, testVars, callVars, cmdVars>>
    \/ EnvChange /\ UNCHANGED <<buildVars, devVars, flashVars, testVars, callVars, cmdVars>>

SpecToolchain == InitToolchain /\ [][NextToolchain]_vars

(***************************************************************************)
(* One caller building repeatedly                                          *)
(***************************************************************************)
\* every search path; gdb-multiarch is looked for on Linux only
BuildPathChoices ==
    {ts \in SUBSET ToolNames : platform # "linux" => "gdb-multiarch" \notin ts}

CpuChoices == {0, 4}

InitBuild ==
    /\ EnvInit(BuildPathChoices, {{}})
    /\ TcInit
    /\ cpus \in CpuChoices
    /\ bPc = "idle"
    /\ bProfile = "O2"
    /\ bSystem = "makefile"
    /\ bValidation = NoValidation
    /\ bSpawned = <<>>
    /\ bChildren = <<>>
    /\ bOutcome = NoOutcome
    /\ DevIdle
    /\ FlashIdle
    /\ TestIdle
    /\ CallIdle
    /\ CmdIdle

\* the outputs of the subprocesses of this specification
SampleTexts ==
    { EmptyText, <<<<"error:", " ">>, <<>>>>, <<<<" ", "warning:">>, <<>>>> }

NextBuild ==
    \/ (\E p \in ProfileNames, b \in BuildSystems : Build(p, b))
          /\ UNCHANGED <<devVars, flashVars, testVars, callVars, cmdVars>>
    \/ DetectToolchainProbe(BuildCaller) /\ UNCHANGED <<buildVars, devVars, flashVars, testVars, callVars, cmdVars>>
    \/ DetectToolchainStore(BuildCaller) /\ UNCHANGED <<buildVars, devVars, flashVars, testVars, callVars, cmdVars>>
    \/ BuildValidated /\ UNCHANGED <<devVars, flashVars, testVars, callVars, cmdVars>>
    \/ BuildConfigured(SampleTexts) /\ UNCHANGED <<devVars, flashVars, testVars, callVars, cmdVars>>
    \/ BuildFinished(SampleTexts) /\ UNCHANGED <<devVars, flashVars, testVars, callVars, cmdVars>>
    \/ BuildReturn /\ UNCHANGED <<devVars, flashVars, testVars, callVars, cmdVars>>
    \/ (\E r \in Roots, b \in BuildSystems : Clean(r, b))
          /\ UNCHANGED <<fPc, fRoot, fGiven, fElf, fProgrammer, fDevice,
                         fDetections, fSpawned, fChildren, fHexMissing, fOutcome,
                         devVars, testVars, callVars, cmdVars>>
    \/ CleanFinished(SampleTexts)
          /\ UNCHANGED <<fPc, fRoot, fGiven, fElf, fProgrammer, fDevice,
                         fDetections, fSpawned, fChildren, fHexMissing, fOutcome,
                         devVars, testVars, callVars, cmdVars>>

SpecBuild == InitBuild /\ [][NextBuild]_vars

(***************************************************************************)
(* One caller building with a complete toolchain, every output text        *)
(***************************************************************************)
InitBuildOutput ==
    /\ EnvInit({ToolNames \ {"gdb-multiarch"}}, {{}})
    /\ TcInit
    /\ cpus = 4
    /\ bPc = "idle"
    /\ bProfile = "O2"
    /\ bSystem = "makefile"
    /\ bValidation = NoValidation
    /\ bSpawned = <<>>
    /\ bChildren = <<>>
    /\ bOutcome = NoOutcome
    /\ DevIdle
    /\ FlashIdle
    /\ TestIdle
    /\ CallIdle
    /\ CmdIdle

NextBuildOutput ==
    \/ (\E b \in BuildSystems : Build("O2", b)) /\ UNCHANGED <<devVars, flashVars, testVars, callVars, cmdVars>>
    \/ DetectToolchainProbe(BuildCaller) /\ UNCHANGED <<buildVars, devVars, flashVars, testVars, callVars, cmdVars>>
    \/ DetectToolchainStore(BuildCaller) /\ UNCHANGED <<buildVars, devVars, flashVars, testVars, callVars, cmdVars>>
    \/ BuildValidated /\ UNCHANGED <<devVars, flashVars, testVars, callVars, cmdVars>>
    \/ BuildConfigured({EmptyText}) /\ UNCHANGED <<devVars, flashVars, testVars, callVars, cmdVars>>
    \/ BuildFinished(Texts) /\ UNCHANGED <<devVars, flashVars, testVars, callVars, cmdVars>>
    \/ BuildReturn /\ UNCHANGED <<devVars, flashVars, testVars, callVars, cmdVars>>

SpecBuildOutput == InitBuildOutput /\ [][NextBuildOutput]_vars

(***************************************************************************)
(* Device detection over sample workspaces                                 *)
(***************************************************************************)
\* the .ioc files of the sample workspaces: a name and a content
IocFiles ==
    {File(n, c) :
        n \in {<<"p", "r", "o", "j", ".", "i", "o", "c">>, IocPattern},
        c \in {<<[key |-> "Mcu.Name", value |->
                     STM32 \o <<"F", "1", "0", "3", "C", "8", "T", "x">>]>>,
               <<[key |-> "Mcu.Family", value |-> <<"S", "T", "M", "3", "2", "H", "7">>],
                 [key |-> "Mcu.Name", value |->
                     STM32 \o <<"H", "7", "4", "3", "Z", "I", "T", "x">>]>>,
               <<[key |-> "Mcu.Family", value |-> <<"S", "T", "M", "3", "2", "F", "1">>]>>}}

\* the Makefiles of the sample workspaces
Makefiles ==
    {File(MakefileName, c) :
        c \in {<<[key |-> "-D", value |-> <<"U", "S", "E", "_", "H", "A", "L">>],
                 [key |-> "-D", value |->
                     STM32 \o <<"F", "4", "0", "7", "V", "G", "x", "x">>]>>,
               <<[key |-> "TARGET", value |-> <<"b", "l", "i", "n", "k">>],
                 [key |-> "-D", value |->
                     STM32 \o <<"F", "4", "0", "7", "x", "x">>]>>,
               <<[key |-> "TARGET", value |->
                     STM32 \o <<"F", "7", "3", "0", "V", "8">>]>>,
               <<[key |-> "TARGET", value |-> <<"b", "l", "i", "n", "k">>]>>}}

\* the linker scripts of the sample workspaces
LinkerScripts ==
    {File(n, <<>>) :
        n \in {STM32 \o <<"G", "0", "7", "1", "R", "B", "T", "x">> \o FlashLdSuffix,
               LinkerScriptPattern}}

\* an entry below `depth` nested directories
RECURSIVE Nested(_, _)
Nested(entry, depth) ==
    IF depth = 0 THEN entry ELSE Dir(<<"d">>, <<Nested(entry, depth - 1)>>)

Optional(S) == {<<>>} \cup {<<x>> : x \in S}

SampleWorkspaces ==
    {ioc \o mk \o ld :
        ioc \in Optional({Nested(f, d) : f \in IocFiles, d \in 0..2}),
        mk \in Optional(Makefiles),
        ld \in Optional({Nested(f, d) : f \in LinkerScripts, d \in 0..MaxNesting})}

OtherWorkspaces ==
    { <<>>,
      <<File(MakefileName, <<[key |-> "-D", value |->
                     STM32 \o <<"F", "4", "0", "7", "x", "x">>]>>)>> }

DevInit ==
    /\ workspaces \in [Roots -> SampleWorkspaces \cup OtherWorkspaces]
    /\ workspaces["A"] \in SampleWorkspaces
    /\ workspaces["B"] \in OtherWorkspaces
    /\ cachedDeviceInfo = NoDevice
    /\ devRet = NoDevice
    /\ devRoot = "A"
    /\ devCold = FALSE

InitDevice ==
    /\ EnvInit({ToolNames}, {{}})
    /\ platform = "linux"
    /\ TcInit
    /\ BuildIdle
    /\ DevInit
    /\ FlashIdle
    /\ TestIdle
    /\ CallIdle
    /\ CmdIdle

NextDevice ==
    \/ \E r \in Roots : detectDevice(r) /\ UNCHANGED <<envVars, tcVars, buildVars, flashVars, testVars, callVars, cmdVars>>
    \/ DeviceClearCache /\ UNCHANGED <<envVars, tcVars, buildVars, flashVars, testVars, callVars, cmdVars>>

SpecDevice == InitDevice /\ [][NextDevice]_vars

(***************************************************************************)
(* One caller flashing repeatedly                                          *)
(***************************************************************************)
\* fw.elf, fw.hex, bt.elf and fw.elf.bak
BuildNames ==
    {<<"f", "w">> \o ElfExt, <<"f", "w">> \o HexExt, <<"b", "t">> \o ElfExt,
     <<"f", "w">> \o ElfExt \o <<".", "b", "a", "k">>}

\* the sequences of at most n distinct elements of S
RECURSIVE Listings(_, _)
Listings(S, n) ==
    IF n = 0 THEN {<<>>}
    ELSE {<<>>} \cup
         UNION {{<<x>> \o rest : rest \in Listings(S \ {x}, n - 1)} : x \in S}

BuildDirs ==
    {[exists |-> FALSE, files |-> <<>>]}
    \cup {[exists |-> TRUE, files |-> l] : l \in Listings(BuildNames, MaxBuildFiles)}

\* the binaries a caller passes to flash()
GivenFiles(root) ==
    {NoText, pathJoin(BuildDirOf(root), <<"f", "w">> \o ElfExt)}

\* what the flashing tools print
FlashStdouts == {EmptyText, <<<<"Loading">>, <<"O.K.", " ">>>>}

InitFlash ==
    /\ EnvInit(PathChoices, {{}})
    /\ platform = "linux"
    /\ TcInit
    /\ BuildIdle
    /\ workspaces \in [Roots -> OtherWorkspaces]
    /\ workspaces["B"] = <<>>
    /\ cachedDeviceInfo = NoDevice
    /\ devRet = NoDevice
    /\ devRoot = "A"
    /\ devCold = FALSE
    /\ buildDir \in [Roots -> BuildDirs]
    /\ buildDir["B"] = [exists |-> FALSE, files |-> <<>>]
    /\ fPc = "idle"
    /\ fRoot = "A"
    /\ fGiven = NoText
    /\ fElf = NoText
    /\ fProgrammer = NoProgrammer
    /\ fDevice = NoDevice
    /\ fDetections = 0
    /\ fSpawned = <<>>
    /\ fChildren = <<>>
    /\ fHexMissing = FALSE
    /\ fOutcome = NoOutcome
    /\ TestIdle
    /\ CallIdle
    /\ CmdIdle

NextFlash ==
    \/ (\E r \in Roots : \E g \in GivenFiles(r) : Flash(r, g)) /\ UNCHANGED <<buildVars, testVars, callVars, cmdVars>>
    \/ FlashProgrammerDetected /\ UNCHANGED <<buildVars, testVars, callVars, cmdVars>>
    \/ DetectToolchainProbe(FlashCaller) /\ UNCHANGED <<buildVars, devVars, flashVars, testVars, callVars, cmdVars>>
    \/ DetectToolchainStore(FlashCaller) /\ UNCHANGED <<buildVars, devVars, flashVars, testVars, callVars, cmdVars>>
    \/ FlashOpenOcdPath /\ UNCHANGED <<buildVars, testVars, callVars, cmdVars>>
    \/ FlashOpenOcdFinished(FlashStdouts) /\ UNCHANGED <<buildVars, testVars, callVars, cmdVars>>
    \/ FlashConverted({EmptyText}) /\ UNCHANGED <<buildVars, testVars, callVars, cmdVars>>
    \/ FlashCommanderFinished(FlashStdouts) /\ UNCHANGED <<buildVars, testVars, callVars, cmdVars>>
    \/ FlashReturn /\ UNCHANGED <<buildVars, testVars, callVars, cmdVars>>

SpecFlash == InitFlash /\ [][NextFlash]_vars

(***************************************************************************)
(* One caller testing the connection repeatedly                            *)
(***************************************************************************)
InitConnection ==
    /\ EnvInit(PathChoices, {{}})
    /\ TcInit
    /\ BuildIdle
    /\ workspaces \in [Roots -> OtherWorkspaces]
    /\ cachedDeviceInfo = NoDevice
    /\ devRet = NoDevice
    /\ devRoot = "A"
    /\ devCold = FALSE
    /\ FlashIdle
    /\ TestIdle
    /\ CallIdle
    /\ CmdIdle

NextConnection ==
    \/ (\E r \in Roots : TestConnection(r))
          /\ UNCHANGED <<buildVars, flashVars, callVars, cmdVars>>
    \/ TestProgrammerDetected /\ UNCHANGED <<buildVars, flashVars, callVars, cmdVars>>
    \/ DetectToolchainProbe(TestCaller)
          /\ UNCHANGED <<buildVars, devVars, flashVars, testVars, callVars, cmdVars>>
    \/ DetectToolchainStore(TestCaller)
          /\ UNCHANGED <<buildVars, devVars, flashVars, testVars, callVars, cmdVars>>
    \/ TestOpenOcdPath /\ UNCHANGED <<buildVars, flashVars, callVars, cmdVars>>
    \/ TestFinished(FlashStdouts) /\ UNCHANGED <<buildVars, flashVars, callVars, cmdVars>>
    \/ TestReturn /\ UNCHANGED <<buildVars, flashVars, callVars, cmdVars>>

SpecConnection == InitConnection /\ [][NextConnection]_vars

(***************************************************************************)
(* The flash and test-connection commands, each invoked whenever the user  *)
(* triggers it: no command waits for another                               *)
(***************************************************************************)
InitOperations ==
    /\ EnvInit({ToolNames}, {{}})
    /\ platform = "linux"
    /\ TcInit
    /\ BuildIdle
    /\ workspaces \in [Roots -> OtherWorkspaces]
    /\ workspaces["B"] = <<>>
    /\ cachedDeviceInfo = NoDevice
    /\ devRet = NoDevice
    /\ devRoot = "A"
    /\ devCold = FALSE
    /\ buildDir = [NoBuildDirs EXCEPT !["A"] =
                      [exists |-> TRUE, files |-> <<<<"f", "w">> \o ElfExt>>]]
    /\ fPc = "idle"
    /\ fRoot = "A"
    /\ fGiven = NoText
    /\ fElf = NoText
    /\ fProgrammer = NoProgrammer
    /\ fDevice = NoDevice
    /\ fDetections = 0
    /\ fSpawned = <<>>
    /\ fChildren = <<>>
    /\ fHexMissing = FALSE
    /\ fOutcome = NoOutcome
    /\ TestIdle
    /\ CallIdle
    /\ CmdIdle

NextOperations ==
    \/ Flash("A", NoText) /\ UNCHANGED <<buildVars, testVars, callVars, cmdVars>>
    \/ FlashProgrammerDetected /\ UNCHANGED <<buildVars, testVars, callVars, cmdVars>>
    \/ (\E c \in {FlashCaller, TestCaller} : DetectToolchainProbe(c))
          /\ UNCHANGED <<buildVars, devVars, flashVars, testVars, callVars, cmdVars>>
    \/ (\E c \in {FlashCaller, TestCaller} : DetectToolchainStore(c))
          /\ UNCHANGED <<buildVars, devVars, flashVars, testVars, callVars, cmdVars>>
    \/ FlashOpenOcdPath /\ UNCHANGED <<buildVars, testVars, callVars, cmdVars>>
    \/ FlashOpenOcdFinished({EmptyText})
          /\ UNCHANGED <<buildVars, testVars, callVars, cmdVars>>
    \/ FlashConverted({EmptyText}) /\ UNCHANGED <<buildVars, testVars, callVars, cmdVars>>
    \/ FlashCommanderFinished({EmptyText})
          /\ UNCHANGED <<buildVars, testVars, callVars, cmdVars>>
    \/ FlashReturn /\ UNCHANGED <<buildVars, testVars, callVars, cmdVars>>
    \/ TestConnection("A") /\ UNCHANGED <<buildVars, flashVars, callVars, cmdVars>>
    \/ TestProgrammerDetected /\ UNCHANGED <<buildVars, flashVars, callVars, cmdVars>>
    \/ TestOpenOcdPath /\ UNCHANGED <<buildVars, flashVars, callVars, cmdVars>>
    \/ TestFinished({EmptyText}) /\ UNCHANGED <<buildVars, flashVars, callVars, cmdVars>>
    \/ TestReturn /\ UNCHANGED <<buildVars, flashVars, callVars, cmdVars>>

SpecOperations == InitOperations /\ [][NextOperations]_vars

(***************************************************************************)
(* parseMemoryUsage on one build output                                    *)
(***************************************************************************)
\* lines of the output of make: the header of the linker's memory table, the
\* rows of the sample table, another row, and lines that are not rows
HeaderLine ==
    <<"M", "e", "m", "o", "r", "y", " ", "r", "e", "g", "i", "o", "n", " ",
      " ", "U", "s", "e", "d", " ", "S", "i", "z", "e", "\n">>

FlashLine ==
    <<" ", "F", "L", "A", "S", "H", ":", " ", "1", "2", "3", "4", "5", " ",
      "B", " ", "6", "5", "5", "3", "6", " ", "B", " ", "1", "8", ".", "8",
      "%", "\n">>

RamLine ==
    <<" ", "R", "A", "M", ":", " ", "2", "0", "4", "8", " ", "B", " ", "1",
      "3", "1", "0", "7", "2", " ", "B", " ", "1", ".", "6", "%", "\n">>

OutputLines ==
    { HeaderLine, FlashLine, RamLine,
      <<" ", "F", "L", "A", "S", "H", ":", " ", "9", " ", "K", "B", " ",
        "6", "4", " ", "K", "B", " ", "1", ".", "2", ".", "3", "%", "\n">>,
      <<" ", "F", "L", "A", "S", "H", ":", " ", "f", "u", "l", "l", "\n">>,
      <<"o", "k", "\n">> }

RECURSIVE Flatten(_)
Flatten(blocks) ==
    IF blocks = <<>> THEN <<>> ELSE Head(blocks) \o Flatten(Tail(blocks))

\* the outputs of up to MaxBlocks lines
MemoryOutputs == {Flatten(b) : b \in SeqsUpTo(OutputLines, MaxBlocks)}

InitMemory ==
    /\ EnvInit({ToolNames}, {{}})
    /\ platform = "linux"
    /\ TcInit
    /\ BuildIdle
    /\ DevIdle
    /\ FlashIdle
    /\ TestIdle
    /\ CmdIdle
    /\ callArg \in MemoryOutputs
    /\ callRet = <<>>

\* one call of parseMemoryUsage
ParseMemoryUsage ==
    /\ callRet = <<>>
    /\ callRet' = <<parseMemoryUsage(callArg)>>
    /\ UNCHANGED <<callArg, envVars, tcVars, buildVars, devVars, flashVars,
                   testVars, cmdVars>>

SpecMemory == InitMemory /\ [][ParseMemoryUsage]_vars

(***************************************************************************)
(* The build command run repeatedly, the setting changing at any time      *)
(***************************************************************************)
InitCommand ==
    /\ EnvInit({ToolNames, ToolNames \ {"make"}}, {{}})
    /\ platform = "linux"
    /\ TcInit
    /\ BuildIdle
    /\ workspaces \in [Roots -> OtherWorkspaces]
    /\ workspaces["B"] = <<>>
    /\ cachedDeviceInfo = NoDevice
    /\ devRet = NoDevice
    /\ devRoot = "A"
    /\ devCold = FALSE
    /\ buildDir \in {NoBuildDirs,
                     [NoBuildDirs EXCEPT !["A"] =
                         [exists |-> TRUE, files |-> <<<<"f", "w">> \o ElfExt>>]]}
    /\ fPc = "idle"
    /\ fRoot = "A"
    /\ fGiven = NoText
    /\ fElf = NoText
    /\ fProgrammer = NoProgrammer
    /\ fDevice = NoDevice
    /\ fDetections = 0
    /\ fSpawned = <<>>
    /\ fChildren = <<>>
    /\ fHexMissing = FALSE
    /\ fOutcome = NoOutcome
    /\ TestIdle
    /\ CallIdle
    /\ autoFlash \in BOOLEAN
    /\ cPc = "idle"

NextCommand ==
    \/ (\E p \in {"O2", "O9"}, b \in BuildSystems : BuildProject(p, b))
          /\ UNCHANGED <<devVars, flashVars, testVars, callVars>>
    \/ DetectToolchainProbe(BuildCaller)
          /\ UNCHANGED <<buildVars, devVars, flashVars, testVars, callVars,
                         cmdVars>>
    \/ DetectToolchainStore(BuildCaller)
          /\ UNCHANGED <<buildVars, devVars, flashVars, testVars, callVars,
                         cmdVars>>
    \/ BuildValidated /\ UNCHANGED <<devVars, flashVars, testVars, callVars, cmdVars>>
    \/ BuildConfigured({EmptyText})
          /\ UNCHANGED <<devVars, flashVars, testVars, callVars, cmdVars>>
    \/ BuildFinished({EmptyText})
          /\ UNCHANGED <<devVars, flashVars, testVars, callVars, cmdVars>>
    \/ BuildProjectBuilt /\ UNCHANGED <<testVars, callVars>>
    \/ FlashProgrammerDetected /\ UNCHANGED <<buildVars, testVars, callVars, cmdVars>>
    \/ FlashOpenOcdPath /\ UNCHANGED <<buildVars, testVars, callVars, cmdVars>>
    \/ FlashOpenOcdFinished({EmptyText})
          /\ UNCHANGED <<buildVars, testVars, callVars, cmdVars>>
    \/ FlashConverted({EmptyText})
          /\ UNCHANGED <<buildVars, testVars, callVars, cmdVars>>
    \/ FlashCommanderFinished({EmptyText})
          /\ UNCHANGED <<buildVars, testVars, callVars, cmdVars>>
    \/ BuildProjectReturn /\ UNCHANGED <<testVars, callVars>>
    \/ \E v \in BOOLEAN : SetAutoFlash(v)

SpecCommand == InitCommand /\ [][NextCommand]_vars

(***************************************************************************)
(* detectProgrammer on one run of the enumeration command                  *)
(***************************************************************************)
\* the captions of USB devices in the output of lsusb, system_profiler, wmic
UsbCaptions ==
    { <<"S", "T", "-", "L", "i", "n", "k">>,
      <<"S", "T", "M", "3", "2">>,
      <<"J", "-", "L", "i", "n", "k">>,
      <<"S", "E", "G", "G", "E", "R">>,
      <<"C", "M", "S", "I", "S", "-", "D", "A", "P">>,
      <<"H", "u", "b">> }

RECURSIVE JoinLines(_)
JoinLines(captions) ==
    IF captions = <<>> THEN <<>>
    ELSE Head(captions) \o <<"\n">> \o JoinLines(Tail(captions))

\* what the command printed before it ended: up to MaxUsbDevices captions
UsbStdouts == {JoinLines(c) : c \in SeqsUpTo(UsbCaptions, MaxUsbDevices)}

UsbChildResults ==
    [status : {"ok"}, code : {0}, stdout : UsbStdouts, stderr : StderrTexts]
    \cup [status : {"exit"}, code : ExitCodes \cup {127}, stdout : UsbStdouts,
          stderr : StderrTexts]
    \cup [status : {"timeout"}, code : {0}, stdout : UsbStdouts,
          stderr : StderrTexts]

InitProgrammer ==
    /\ EnvInit({ToolNames, ToolNames \cup {"ST-LINK_CLI"}}, {{}})
    /\ TcInit
    /\ BuildIdle
    /\ DevIdle
    /\ FlashIdle
    /\ TestIdle
    /\ CmdIdle
    /\ callArg \in UsbChildResults
    /\ callRet = <<>>

\* one call of detectProgrammer, the enumeration command ending as callArg
DetectProgrammer ==
    /\ callRet = <<>>
    /\ callRet' = <<detectProgrammer(platform, exec(callArg))>>
    /\ UNCHANGED <<callArg, envVars, tcVars, buildVars, devVars, flashVars,
                   testVars, cmdVars>>

SpecProgrammer == InitProgrammer /\ [][DetectProgrammer]_vars

(***************************************************************************)
(* parseDeviceName on one device name                                      *)
(***************************************************************************)
\* the part numbers of the families the documentation lists as supported:
\* family code, the rest of the part number, the OpenOCD target line
SupportedDevices ==
    { <<<<"F", "0">>, <<"3", "0", "F", "4">>, <<"f", "0">>>>,
      <<<<"F", "1">>, <<"0", "3", "C", "8">>, <<"f", "1">>>>,
      <<<<"F", "2">>, <<"0", "5", "R", "G">>, <<"f", "2">>>>,
      <<<<"F", "3">>, <<"0", "3", "R", "E">>, <<"f", "3">>>>,
      <<<<"F", "4">>, <<"0", "7", "V", "G">>, <<"f", "4">>>>,
      <<<<"F", "7">>, <<"4", "6", "Z", "G">>, <<"f", "7">>>>,
      <<<<"G", "0">>, <<"7", "1", "R", "B">>, <<"g", "0">>>>,
      <<<<"G", "4">>, <<"7", "4", "R", "E">>, <<"g", "4">>>>,
      <<<<"H", "7">>, <<"4", "3", "Z", "I">>, <<"h", "7">>>>,
      <<<<"L", "0">>, <<"5", "3", "R", "8">>, <<"l", "0">>>>,
      <<<<"L", "1">>, <<"5", "2", "R", "E">>, <<"l", "1">>>>,
      <<<<"L", "4">>, <<"7", "6", "R", "G">>, <<"l", "4">>>>,
      <<<<"L", "5">>, <<"5", "2", "Z", "E">>, <<"l", "5">>>>,
      <<<<"U", "5">>, <<"7", "5", "Z", "I">>, <<"u", "5">>>>,
      <<<<"W", "B">>, <<"5", "5", "R", "G">>, <<"w", "b">>>>,
      <<<<"W", "L">>, <<"5", "5", "J", "C">>, <<"w", "l">>>> }

\* the characters of the other device names
NameAlphabet == {"F", "W", "4", "7", "8", "C", "x"}

\* every device name with the vendor prefix and a tail of 1..MaxTail
\* characters, and the supported part numbers
DeviceNames ==
    {STM32 \o t : t \in SeqsUpTo(NameAlphabet, MaxTail) \ {<<>>}}
    \cup {STM32 \o d[1] \o d[2] : d \in SupportedDevices}

InitParse ==
    /\ EnvInit({ToolNames}, {{}})
    /\ platform = "linux"
    /\ TcInit
    /\ BuildIdle
    /\ DevIdle
    /\ FlashIdle
    /\ TestIdle
    /\ CmdIdle
    /\ callArg \in DeviceNames
    /\ callRet = <<>>

\* one call of parseDeviceName
ParseDeviceName ==
    /\ callRet = <<>>
    /\ callRet' = <<parseDeviceName(callArg)>>
    /\ UNCHANGED <<callArg, envVars, tcVars, buildVars, devVars, flashVars,
                   testVars, cmdVars>>

SpecParse == InitParse /\ [][ParseDeviceName]_vars

(***************************************************************************)
(* Properties of the toolchain cache                                       *)
(***************************************************************************)
NoCallInFlight == \A d \in Callers : tcPc[d] = "idle"

\* every tool of the snapshot has been looked for on the search path
AllProbed(S) ==
    /\ {"arm-none-eabi-gcc", "openocd", "make", "cmake"} \subseteq S
    /\ S \cap {"gdb-multiarch", "arm-none-eabi-gdb"} # {}

\* C2: when calls do not overlap, a detectToolchain() that follows a
\* completed one with no clearCache() in between returns the same snapshot
\* and probes nothing, and a detectToolchain() that follows a clearCache()
\* starts probing and has probed every tool when it stores its snapshot.
C2_CacheReuseAndReprobe ==
    [][\A c \in Callers :
          /\ (DetectToolchainStart(c) /\ ~tcOverlap /\ NoCallInFlight
                /\ ~tcCleared /\ tcPrev # NoToolchain)
             => (/\ tcPrev' = tcPrev
                 /\ tcPc'[c] = "idle"
                 /\ tcProbed'[c] = {}
                 /\ cachedToolchain' = cachedToolchain)
          /\ (DetectToolchainStart(c) /\ ~tcOverlap /\ NoCallInFlight
                /\ tcCleared)
             => (tcPc'[c] = FirstStep /\ tcProbed'[c] = {})
          /\ (DetectToolchainStore(c) /\ ~tcOverlap /\ tcLastAfterClear)
             => AllProbed(tcProbed[c])]_vars

\* a call served from the cache has returned, the cache was cleared after a
\* completed call, and the call that followed has probed up to its store
C2_Witness ==
    /\ ~tcOverlap
    /\ tcCacheHit
    /\ tcLastAfterClear
    /\ tcPrev # NoToolchain
    /\ envChanges > 0
    /\ \E c \in Callers : tcPc[c] = "store"

\* C3: the cache, and every snapshot a caller has been handed, is either
\* empty or has a descriptor for each of gcc, gdb, openocd, make and cmake.
C3_NoPartialSnapshot ==
    /\ cachedToolchain = NoToolchain \/ DOMAIN cachedToolchain = ToolKeys
    /\ tcPrev = NoToolchain \/ DOMAIN tcPrev = ToolKeys

\* the cache is warm while another caller holds a half-built local object
C3_Witness ==
    /\ cachedToolchain # NoToolchain
    /\ \E c \in Callers :
          /\ tcPc[c] \in ProbeSteps
          /\ tcLocal[c] # NoToolchain
          /\ DOMAIN tcLocal[c] # ToolKeys

\* C26: when a probe looks for a tool that is not on the search path, the
\* descriptor it yields has found = true exactly when some common root has
\* an executable <root>/bin/<executable>, its path is then that of the first
\* such root, and otherwise it carries an error message.
C26_CommonLocationFallback ==
    [][\A c \in Callers :
          (/\ tcPc[c] \in ProbeSteps
           /\ tcPc'[c] # tcPc[c]
           /\ getExecutableName(StepTool(tcPc[c])) \notin onPath)
          => LET executable == getExecutableName(StepTool(tcPc[c]))
                 info == tcLocal'[c][StepKey(tcPc[c])]
                 roots == {l \in getCommonToolchainLocations :
                              /\ <<l, executable>> \in binFiles
                              /\ <<l, executable>> \in binExec}
             IN  /\ info.found <=> roots # {}
                 /\ info.found =>
                       info.path = <<CHOOSE l \in roots : \A m \in roots : l <= m,
                                     executable>>
                 /\ ~info.found => info.error # NoText]_vars

(***************************************************************************)
(* Properties of build()                                                   *)
(***************************************************************************)
RequiredKeys == {"gcc", "gdb", "openocd", "make"}

\* the name validateToolchain reports for a required tool, and its place in
\* the detection order
ReportedName(k) == IF k = "gcc" THEN "arm-none-eabi-gcc" ELSE k

DetectionRank(name) ==
    CASE name = "arm-none-eabi-gcc" -> 1
      [] name = "gdb" -> 2
      [] name = "openocd" -> 3
      [] name = "make" -> 4
      [] OTHER -> 0

NotFoundRequired(toolchain) ==
    {ReportedName(k) : k \in {r \in RequiredKeys : ~toolchain[r].found}}

Validated == bPc \in {"configuring", "building", "done"}

\* C4: the validation build() received has allFound exactly when gcc, gdb,
\* openocd and make are found in the snapshot, whatever cmake is, and its
\* missing list holds exactly the not-found required tools, once each, in
\* detection order; with only gdb and make missing it is <<"gdb", "make">>.
C4_ValidateToolchain ==
    Validated =>
        /\ bValidation.allFound <=> (\A k \in RequiredKeys : tcPrev[k].found)
        /\ {bValidation.missing[i] : i \in 1..Len(bValidation.missing)}
              = NotFoundRequired(tcPrev)
        /\ \A i, j \in 1..Len(bValidation.missing) :
              i < j => DetectionRank(bValidation.missing[i])
                          < DetectionRank(bValidation.missing[j])
        /\ NotFoundRequired(tcPrev) = {"gdb", "make"}
              => bValidation.missing = <<"gdb", "make">>

\* a snapshot with the optional cmake found and only gdb and make missing has
\* been validated
C4_Witness ==
    /\ Validated
    /\ tcPrev["cmake"].found
    /\ NotFoundRequired(tcPrev) = {"gdb", "make"}
    /\ ~bValidation.allFound

\* C5: when a required tool is missing from the snapshot, build() has spawned
\* nothing and ends by throwing TOOLCHAIN_NOT_FOUND with the missing tools.
C5_BuildFailFast ==
    (Validated /\ NotFoundRequired(tcPrev) # {}) =>
        /\ bPc = "done"
        /\ bSpawned = <<>>
        /\ bOutcome.kind = "throw"
        /\ bOutcome.code = "TOOLCHAIN_NOT_FOUND"
        /\ bOutcome.details # <<>>
        /\ {bOutcome.details[i] : i \in 1..Len(bOutcome.details)}
              = NotFoundRequired(tcPrev)

\* a cmake build and a makefile build have failed fast
C5_Witness ==
    /\ bPc = "done"
    /\ bSystem = "cmake"
    /\ NotFoundRequired(tcPrev) # {}
    /\ bOutcome.kind = "throw"
    /\ bSpawned = <<>>

\* C6: a build() called with a profile name outside the six profiles spawns
\* neither a configure nor a build subprocess.
C6_UnknownProfileSpawnsNothing ==
    (bPc # "idle" /\ bProfile \notin DOMAIN BUILD_PROFILES) => bSpawned = <<>>

\* C7: a line that has an error marker and the warning marker is never in the
\* warnings list of a BuildOutcome.
HasErrorMarker(line) == includes(line, "error:") \/ includes(line, "ERROR:")

C7_ErrorLineNeverAWarning ==
    (bOutcome.kind = "return" /\ bOutcome.warnings # <<>>) =>
        \A i \in 1..Len(bOutcome.warnings[1]) :
            ~(HasErrorMarker(bOutcome.warnings[1][i])
              /\ includes(bOutcome.warnings[1][i], "warning:"))

(***************************************************************************)
(* Properties of detectDevice                                              *)
(***************************************************************************)
\* the files of a directory tree down to maxDepth nested directories
RECURSIVE FilesWithin(_, _)
FilesWithin(entries, maxDepth) ==
    UNION {IF entries[i].type = "file" THEN {entries[i]}
           ELSE IF maxDepth = 0 THEN {}
           ELSE FilesWithin(entries[i].entries, maxDepth - 1)
           : i \in 1..Len(entries)}

IsIocName(name) ==
    Len(name) > 4 /\ SubSeq(name, Len(name) - 3, Len(name)) = <<".", "i", "o", "c">>

\* the devices the .ioc files of a workspace name through Mcu.Name=
IocDevices(root) ==
    {IocMatch(f.content) :
        f \in {g \in FilesWithin(workspaces[root], 1) :
                  IsIocName(g.name) /\ IocMatch(g.content) # NoText}}

\* the devices the Makefile of a workspace names
MakefileDevices(root) ==
    {RemoveFirst(MakefileMatch(f.content), <<"x", "x">>) :
        f \in {g \in FilesWithin(workspaces[root], 0) :
                  g.name = MakefileName /\ MakefileMatch(g.content) # NoText}}

\* C1: when the workspace has an .ioc file naming a device and a Makefile
\* naming another one, a detectDevice on a cold cache returns the descriptor
\* of the device of the .ioc file.
C1_IocBeforeMakefile ==
    \A d \in IocDevices(devRoot) :
        (/\ devCold
         /\ IocDevices(devRoot) = {d}
         /\ MakefileDevices(devRoot) # {}
         /\ \A m \in MakefileDevices(devRoot) :
               parseDeviceName(m) # parseDeviceName(d))
        => devRet = parseDeviceName(d)

\* the devices named by the linker scripts <DEVICE>_FLASH.ld of a workspace,
\* at the root or within two levels of subdirectories
LinkerDevices(root) ==
    {SubSeq(f.name, 1, Len(f.name) - 9) :
        f \in {g \in FilesWithin(workspaces[root], 2) :
                  /\ Len(g.name) > 14
                  /\ SubSeq(g.name, 1, 5) = <<"S", "T", "M", "3", "2">>
                  /\ SubSeq(g.name, Len(g.name) - 8, Len(g.name))
                        = <<"_", "F", "L", "A", "S", "H", ".", "l", "d">>}}

\* C25: on a cold cache, for a workspace with no .ioc file and no Makefile
\* naming a device, detectDevice returns the descriptor of the device of the
\* linker script <DEVICE>_FLASH.ld found within two levels; when no source
\* names a device it returns nothing.
C25_LinkerScriptThird ==
    (/\ devCold
     /\ \A f \in FilesWithin(workspaces[devRoot], 2) : ~IsIocName(f.name)
     /\ MakefileDevices(devRoot) = {})
    => /\ \A d \in LinkerDevices(devRoot) :
             LinkerDevices(devRoot) = {d} => devRet = parseDeviceName(d)
       /\ LinkerDevices(devRoot) = {} => devRet = NoDevice

(***************************************************************************)
(* Properties of flash()                                                   *)
(***************************************************************************)
\* the tools of the subprocesses this flash() has spawned, in order
SpawnedTools == [i \in 1..Len(fSpawned) |-> fSpawned[i].tool]

\* the i-th subprocess of this flash() has returned with exit code 0
Exited0(i) == i <= Len(fChildren) /\ fChildren[i].status = "ok"

ScriptExists ==
    \E r \in Roots :
        buildDir[r].exists /\ ScriptName \in Range(buildDir[r].files)

\* C8: in a J-Link flash of a binary with no .hex beside it, the conversion
\* is spawned first, the commander is spawned only after the conversion has
\* returned with exit code 0 and never after a failed conversion, and once
\* flash() has returned jlink_flash.jlink does not exist, whatever the
\* commander did.
C8_JLinkConversionAndCleanup ==
    /\ (fProgrammer.type = "jlink" /\ fHexMissing) =>
          /\ fSpawned # <<>>
          /\ fSpawned[1].tool = "arm-none-eabi-objcopy"
          /\ \A i \in 1..Len(fSpawned) :
                fSpawned[i].tool = "JLinkExe" => (i = 2 /\ Exited0(1))
          /\ (Len(fChildren) >= 1 /\ ~Exited0(1)) =>
                /\ \A i \in 1..Len(fSpawned) : fSpawned[i].tool # "JLinkExe"
                /\ fPc = "done"
    /\ (fProgrammer.type = "jlink" /\ fPc = "done") => ~ScriptExists

C8_Witness ==
    /\ fPc = "done"
    /\ fProgrammer.type = "jlink"
    /\ fHexMissing
    /\ SpawnedTools = <<"arm-none-eabi-objcopy", "JLinkExe">>
    /\ Len(fChildren) = 2
    /\ fChildren[2].status = "exit"
    /\ ~fOutcome.success

\* C9: stlink and cmsis-dap flash through OpenOCD only and succeed exactly
\* when OpenOCD exits with code 0; jlink flashes through the commander, never
\* through OpenOCD, and succeeds exactly when the commander exits with code 0
\* and prints 'O.K.'.
C9_DispatchAndSuccess ==
    /\ fProgrammer.type \in {"stlink", "cmsis-dap"} =>
          /\ \A i \in 1..Len(fSpawned) : fSpawned[i].tool = "openocd"
          /\ fPc = "done" =>
                (fOutcome.success <=> (Len(fSpawned) = 1 /\ Exited0(1)))
    /\ fProgrammer.type = "jlink" =>
          /\ \A i \in 1..Len(fSpawned) : fSpawned[i].tool # "openocd"
          /\ fPc = "done" =>
                (fOutcome.success <=>
                    \E i \in 1..Len(fSpawned) :
                        /\ fSpawned[i].tool = "JLinkExe"
                        /\ Exited0(i)
                        /\ \E l \in 1..Len(fChildren[i].stdout) :
                              \E t \in 1..Len(fChildren[i].stdout[l]) :
                                  fChildren[i].stdout[l][t] = "O.K.")

C9_Witness ==
    /\ fPc = "done"
    /\ fProgrammer.type = "jlink"
    /\ fSpawned # <<>>
    /\ fSpawned[Len(fSpawned)].tool = "JLinkExe"
    /\ Exited0(Len(fSpawned))
    /\ fChildren[Len(fSpawned)].stdout = EmptyText
    /\ ~fOutcome.success

\* the build directory of the root is missing or has no entry named *.elf
NoElfBuilt(root) ==
    \/ ~buildDir[root].exists
    \/ \A i \in 1..Len(buildDir[root].files) :
          LET name == buildDir[root].files[i]
          IN  \/ Len(name) < 4
              \/ SubSeq(name, Len(name) - 3, Len(name)) # <<".", "e", "l", "f">>

\* C10: a flash() without a binary, on a root whose build directory is
\* missing or holds no .elf file, has returned its one failure as soon as it
\* has started: it waits for nothing, has called no programmer detection
\* and has spawned no subprocess.
C10_NoBinaryFailsOnce ==
    (fPc # "idle" /\ fGiven = NoText /\ NoElfBuilt(fRoot)) =>
        /\ fPc = "done"
        /\ fOutcome.kind = "return"
        /\ ~fOutcome.success
        /\ fOutcome.error = <<<<"No .elf file found in build directory">>>>
        /\ fDetections = 0
        /\ fSpawned = <<>>

C10_Witness ==
    /\ fPc = "done"
    /\ fGiven = NoText
    /\ buildDir[fRoot].exists
    /\ buildDir[fRoot].files # <<>>
    /\ NoElfBuilt(fRoot)
    /\ ~fOutcome.success

(***************************************************************************)
(* Properties of testConnection()                                          *)
(***************************************************************************)
\* C11: testConnection() ends only by returning a boolean; when no OpenOCD
\* can be found it spawns nothing and returns false; it returns true only
\* after its one subprocess, OpenOCD with 'init; reset halt; exit', has
\* exited with code 0.
C11_TestConnectionNeverThrows ==
    /\ tOutcome.kind \in {"none", "return"}
    /\ tPc = "done" => (tOutcome.kind = "return" /\ tOutcome.value \in BOOLEAN)
    /\ ~findTool("openocd").found =>
          /\ tSpawned = <<>>
          /\ tPc = "done" => tOutcome.value = FALSE
    /\ (tPc = "done" /\ tOutcome.value) =>
          /\ Len(tSpawned) = 1
          /\ tSpawned[1].tool = "openocd"
          /\ tSpawned[1].command = <<"init; reset halt; exit">>
          /\ Len(tChildren) = 1
          /\ tChildren[1].status = "ok"

C11_Witness ==
    /\ tPc = "done"
    /\ tProgrammer.type = "stlink"
    /\ ~findTool("openocd").found
    /\ tOutcome.kind = "return"
    /\ tOutcome.value = FALSE

\* every file of the workspace, at any depth
AllFiles(root) == FilesWithin(workspaces[root], MaxNesting + 1)

\* the only artifact of the workspace that names a device is its Makefile,
\* and the Makefile names it in a -D flag with this value
OnlyMakefileDefines(root, value) ==
    /\ \A f \in AllFiles(root) :
          f.name # MakefileName =>
              /\ \A i \in 1..Len(f.content) : f.content[i].key # "Mcu.Name"
              /\ \A i \in 1..Len(f.name) : ~HasAtCI(f.name, i, STM32)
    /\ \E i \in 1..Len(workspaces[root]) :
          LET e == workspaces[root][i]
          IN  /\ e.type = "file"
              /\ e.name = MakefileName
              /\ \E k \in 1..Len(e.content) :
                    e.content[k] = [key |-> "-D", value |-> value]
              /\ \A k \in 1..Len(e.content) :
                    HasAtCI(e.content[k].value, 1, STM32) =>
                        e.content[k] = [key |-> "-D", value |-> value]

\* C12: in a workspace whose only device-naming artifact is a Makefile with
\* -DSTM32F407VGxx, a detectDevice on a cold cache returns family STM32F4,
\* target/stm32f4x.cfg and 192 KB of RAM.
C12_MakefileF407Scenario ==
    (/\ devCold
     /\ OnlyMakefileDefines(devRoot,
            STM32 \o <<"F", "4", "0", "7", "V", "G", "x", "x">>))
    => /\ devRet # NoDevice
       /\ devRet.family = <<"S", "T", "M", "3", "2", "F", "4">>
       /\ devRet.openocdTarget =
             <<"target/", "s", "t", "m", "3", "2", "f", "4", "x", ".cfg">>
       /\ devRet.ramSize = 192

C12_Witness ==
    /\ devCold
    /\ OnlyMakefileDefines(devRoot,
           STM32 \o <<"F", "4", "0", "7", "V", "G", "x", "x">>)
    /\ devRet # NoDevice
    /\ devRet.name = STM32 \o <<"F", "4", "0", "7", "V", "G">>

(***************************************************************************)
(* Properties of parseDeviceName                                           *)
(***************************************************************************)
\* C13: the descriptor derived from a device name has a family STM32<letter>
\* <digit> (STM32F4 when the name has none), the line of that family, a flash
\* size that is a value of the flash table or 512, a RAM size that is a
\* value of the RAM table or 128, and target/<line>.cfg as its target.
C13_DescriptorAlwaysPopulated ==
    callRet # <<>> =>
        LET info == callRet[1]
            letters == {"A", "B", "C", "D", "E", "F", "G", "H", "I", "J", "K",
                        "L", "M", "N", "O", "P", "Q", "R", "S", "T", "U", "V",
                        "W", "X", "Y", "Z"}
            digits == {"0", "1", "2", "3", "4", "5", "6", "7", "8", "9"}
            named == /\ Len(callArg) >= 7
                     /\ callArg[6] \in letters
                     /\ callArg[7] \in digits
        IN  /\ Len(info.family) = 7
            /\ SubSeq(info.family, 1, 5) = <<"S", "T", "M", "3", "2">>
            /\ info.family[6] \in letters
            /\ info.family[7] \in digits
            /\ named => info.family = SubSeq(callArg, 1, 7)
            /\ ~named => info.family = <<"S", "T", "M", "3", "2", "F", "4">>
            /\ info.line = toLowerCase(info.family) \o <<"x">>
            /\ info.flashSize \in
                  {16, 32, 64, 128, 256, 512, 768, 1024, 1536, 2048}
            /\ info.ramSize \in
                  {8, 16, 20, 36, 40, 128, 192, 256, 320, 1024}
            /\ info.openocdTarget = <<"target/">> \o info.line \o <<".cfg">>

C13_Witness ==
    /\ callArg = <<"S", "T", "M", "3", "2", "W", "4", "C", "8">>
    /\ callRet # <<>>
    /\ callRet[1].family = <<"S", "T", "M", "3", "2", "W", "4">>
    /\ callRet[1].flashSize = 256
    /\ callRet[1].ramSize = 128

\* C24: for a name STM32<letter><digits><pin-count letter><size code>, the
\* flash size is the table entry of the size code when the table has one,
\* and 512 otherwise.
C24_FlashSizeFromSizeCode ==
    callRet # <<>> =>
        LET n == Len(callArg)
            letters == {"A", "B", "C", "D", "E", "F", "G", "H", "I", "J", "K",
                        "L", "M", "N", "O", "P", "Q", "R", "S", "T", "U", "V",
                        "W", "X", "Y", "Z"}
            digits == {"0", "1", "2", "3", "4", "5", "6", "7", "8", "9"}
            table == [c \in {"4", "6", "8", "B", "C", "E", "F", "G", "H", "I"} |->
                         CASE c = "4" -> 16 [] c = "6" -> 32 [] c = "8" -> 64
                           [] c = "B" -> 128 [] c = "C" -> 256 [] c = "E" -> 512
                           [] c = "F" -> 768 [] c = "G" -> 1024
                           [] c = "H" -> 1536 [] c = "I" -> 2048]
        IN  (/\ n >= 9
             /\ SubSeq(callArg, 1, 5) = <<"S", "T", "M", "3", "2">>
             /\ callArg[6] \in letters
             /\ \A i \in 7..(n - 2) : callArg[i] \in digits
             /\ callArg[n - 1] \in letters)
            => callRet[1].flashSize =
                  IF callArg[n] \in DOMAIN table THEN table[callArg[n]] ELSE 512

\* C14: for a part number of every supported family, the derived family is
\* the part's own family and the target is the one of that family.
C14_SupportedFamiliesDerived ==
    \A d \in SupportedDevices :
        (callRet # <<>> /\ callArg = <<"S", "T", "M", "3", "2">> \o d[1] \o d[2])
        => /\ callRet[1].family = <<"S", "T", "M", "3", "2">> \o d[1]
           /\ callRet[1].openocdTarget =
                 <<"target/", "s", "t", "m", "3", "2">> \o d[3] \o <<"x", ".cfg">>

(***************************************************************************)
(* Properties of detectProgrammer                                          *)
(***************************************************************************)
\* C15: whenever the enumeration command fails (not found, non-zero exit,
\* timeout), detectProgrammer returns kind unknown with the ST-Link interface.
C15_EnumerationFailureGivesUnknown ==
    (callRet # <<>> /\ callArg.status # "ok")
    => callRet[1] = [type |-> "unknown", interface |-> "interface/stlink.cfg"]

(***************************************************************************)
(* Properties of subprocess failures                                       *)
(***************************************************************************)
\* C16: when the last subprocess of a finished build or clean exited
\* non-zero, the outcome is a failure: a thrown error, or a result with
\* success false and a non-empty errors list.
C16_NonZeroExitSurfaced ==
    (/\ bPc \in {"done", "cleaned"}
     /\ bChildren # <<>>
     /\ bChildren[Len(bChildren)].status = "exit")
    => \/ bOutcome.kind = "throw"
       \/ /\ bOutcome.kind = "return"
          /\ ~bOutcome.success
          /\ bOutcome.errors[1] # <<>>

\* C17: a flash() that ended in failure reports it as a typed failure: an
\* error that carries one of the error codes and a message.
C17_FlashFailureTyped ==
    (fPc = "done" /\ ~(fOutcome.kind = "return" /\ fOutcome.success))
    => /\ fOutcome.kind = "throw"
       /\ fOutcome.code \in {"BUILD_FAILED", "FLASH_FAILED",
                             "DEVICE_NOT_CONNECTED", "TOOLCHAIN_NOT_FOUND"}
       /\ fOutcome.message # NoText

(***************************************************************************)
(* Properties of overlapping commands                                      *)
(***************************************************************************)
\* C18: the flashing subprocess of flash() (OpenOCD or the J-Link commander)
\* and the OpenOCD subprocess of testConnection() never run at the same time.
C18_OneDeviceSubprocessAtATime ==
    ~(fPc \in {"openocd", "jlink"} /\ tPc = "openocd")

(***************************************************************************)
(* Properties of ProcessUtils.exec as build() sees it                      *)
(***************************************************************************)
\* C19: a build whose subprocess has returned ends with a result, not an
\* exception; the result is a success exactly when the subprocess completed
\* successfully, and after a non-zero exit or a timeout it is a failure whose
\* output begins with the lines the subprocess had written to stdout.
C19_ExecFailureKeepsStdout ==
    (bPc = "done" /\ Len(bChildren) = Len(bSpawned) /\ bSpawned # <<>>
     /\ bSpawned[Len(bSpawned)].kind = "build")
    => LET child == bChildren[Len(bChildren)]
       IN  /\ bOutcome.kind = "return"
           /\ bOutcome.success <=> child.status = "ok"
           /\ child.status # "ok" =>
                 /\ Len(bOutcome.output) > Len(child.stdout)
                 /\ SubSeq(bOutcome.output, 1, Len(child.stdout)) = child.stdout

\* a build whose make was killed by the timeout after writing an error line
C19_Witness ==
    /\ bPc = "done"
    /\ bSystem = "makefile"
    /\ bChildren # <<>>
    /\ bChildren[Len(bChildren)].status = "timeout"
    /\ bChildren[Len(bChildren)].stdout = <<<<"error:", " ">>, <<"warning:">>>>
    /\ bOutcome.kind = "return"
    /\ ~bOutcome.success
    /\ bOutcome.output[1] = <<"error:", " ">>

(***************************************************************************)
(* Properties of parseMemoryUsage                                          *)
(***************************************************************************)
\* C20: the parsed memory usage is either absent or has both the flash and
\* the ram section; for an output that holds the sample table (header, FLASH
\* row, RAM row) after lines without a header, it is flash = 12345 / 65536 /
\* 18.8 and ram = 2048 / 131072 / 1.6.
C20_MemoryUsageBothOrAbsent ==
    callRet # <<>> =>
        /\ \/ callRet[1] = [kind |-> "undefined"]
           \/ /\ DOMAIN callRet[1] = {"kind", "flash", "ram"}
              /\ \A section \in {callRet[1].flash, callRet[1].ram} :
                    DOMAIN section = {"used", "total", "percentage"}
        /\ \A pre, post \in SeqsUpTo(OutputLines \ {HeaderLine}, MaxBlocks - 3) :
              callArg = Flatten(pre) \o HeaderLine \o FlashLine \o RamLine
                           \o Flatten(post)
              => /\ callRet[1].flash =
                       [used |-> 12345, total |-> 65536,
                        percentage |-> [nan |-> FALSE, whole |-> 18,
                                        frac |-> <<"8">>]]
                 /\ callRet[1].ram =
                       [used |-> 2048, total |-> 131072,
                        percentage |-> [nan |-> FALSE, whole |-> 1,
                                        frac |-> <<"6">>]]

\* the sample table after a FLASH row that precedes the header
C20_Witness ==
    /\ callArg = <<" ", "F", "L", "A", "S", "H", ":", " ", "9", " ",
                      "K", "B", " ", "6", "4", " ", "K", "B", " ", "1",
                      ".", "2", ".", "3", "%", "\n">>
                    \o HeaderLine \o FlashLine \o RamLine
    /\ callRet # <<>>
    /\ callRet[1].kind = "memoryUsage"
    /\ callRet[1].flash.used = 12345
    /\ callRet[1].ram.total = 131072

(***************************************************************************)
(* Properties of the build command                                         *)
(***************************************************************************)
\* C21: the build command starts a flash only in a state where its build has
\* returned a result with success true and the autoFlash setting is enabled;
\* while the command holds a failed or thrown build, no flash is running.
C21_AutoFlashOrdering ==
    [][/\ (fPc = "idle" /\ fPc' # "idle")
          => /\ bPc = "done"
             /\ bOutcome.kind = "return"
             /\ bOutcome.success
             /\ autoFlash
       /\ (bPc' = "done" /\ ~(bOutcome'.kind = "return" /\ bOutcome'.success))
          => fPc' = "idle"]_vars

\* a successful build whose command went on to spawn a flashing subprocess
C21_Witness ==
    /\ cPc = "flashing"
    /\ bPc = "done"
    /\ bOutcome.kind = "return"
    /\ bOutcome.success
    /\ fSpawned # <<>>

(***************************************************************************)
(* Properties of the build subprocesses                                    *)
(***************************************************************************)
\* C22: every build subprocess spawned for one of the six profiles, with
\* either build system, is given the profile's flags in order, the fixed
\* linker flags, and -j<N> with N the number of processing units, at least 1.
C22_BuildToolGetsFlags ==
    \A i \in 1..Len(bSpawned) :
        (bSpawned[i].kind = "build" /\ bProfile \in DOMAIN BUILD_PROFILES)
        => /\ {"opt", "ldflags", "jobs"} \subseteq DOMAIN bSpawned[i]
           /\ bSpawned[i].opt = BUILD_PROFILES[bProfile]
           /\ bSpawned[i].ldflags =
                 <<"-Wl,--gc-sections", "-Wl,--print-memory-usage">>
           /\ bSpawned[i].jobs = IF cpus >= 1 THEN cpus ELSE 1

\* C23: a configure subprocess is spawned only by a cmake build, as its first
\* subprocess and after validation succeeded, and every validated cmake build
\* spawns it; the build subprocess of a cmake build is the second subprocess
\* and follows a configure step that exited 0; a configure step that failed
\* is the last subprocess and build() ends by throwing BUILD_FAILED.
C23_ConfigureBeforeBuild ==
    /\ \A i \in 1..Len(bSpawned) :
          /\ bSpawned[i].kind = "configure"
             => (i = 1 /\ bSystem = "cmake" /\ bValidation.allFound)
          /\ (bSpawned[i].kind = "build" /\ bSystem = "cmake")
             => /\ i = 2
                /\ bSpawned[1].kind = "configure"
                /\ Len(bChildren) >= 1
                /\ bChildren[1].status = "ok"
    /\ (bSystem = "cmake" /\ bValidation.allFound)
       => (bSpawned # <<>> /\ bSpawned[1].kind = "configure")
    /\ (bSystem = "cmake" /\ bChildren # <<>> /\ bChildren[1].status # "ok")
       => /\ Len(bSpawned) = 1
          /\ bPc = "done"
          /\ bOutcome.kind = "throw"
          /\ bOutcome.code = "BUILD_FAILED"

\* a cmake build whose configure step exited non-zero
C23_Witness ==
    /\ bSystem = "cmake"
    /\ bPc = "done"
    /\ Len(bChildren) = 1
    /\ bChildren[1].status = "exit"
    /\ bOutcome.kind = "throw"

\* C27: on Windows, when the enumeration query fails and ST-LINK_CLI is on
\* the search path, detectProgrammer returns kind stlink.
C27_WindowsCliFallback ==
    (/\ callRet # <<>>
     /\ platform = "win32"
     /\ callArg.status # "ok"
     /\ Exe("ST-LINK_CLI") \in onPath)
    => callRet[1].type = "stlink"

\* the output names a vendor family, in any letter case
NamesVendor(stdout, name) ==
    \E i \in 1..Len(stdout) : HasAtCI(stdout, i, name)

NamesStLink(stdout) == NamesVendor(stdout, <<"s", "t", "-", "l", "i", "n", "k">>)

NamesJLink(stdout) ==
    \/ NamesVendor(stdout, <<"j", "-", "l", "i", "n", "k">>)
    \/ NamesVendor(stdout, <<"s", "e", "g", "g", "e", "r">>)

NamesCmsisDap(stdout) ==
    NamesVendor(stdout, <<"c", "m", "s", "i", "s", "-", "d", "a", "p">>)

\* C28: when the enumeration output names more than one vendor family, in
\* any letter case, the returned kind is the first of stlink, jlink,
\* cmsis-dap whose family is named, and the interface fragment is the one of
\* the returned kind.
C28_ProgrammerPriority ==
    callRet # <<>> =>
        LET stdout == callArg.stdout
            kind == callRet[1].type
        IN  /\ NamesStLink(stdout) => kind = "stlink"
            /\ (NamesJLink(stdout) /\ kind # "stlink") => kind = "jlink"
            /\ kind = "jlink" => (NamesJLink(stdout) /\ ~NamesStLink(stdout))
            /\ (NamesCmsisDap(stdout) /\ kind \notin {"stlink", "jlink"})
                   => kind = "cmsis-dap"
            /\ kind = "cmsis-dap"
                   => /\ NamesCmsisDap(stdout)
                      /\ ~NamesJLink(stdout)
                      /\ ~NamesStLink(stdout)
            /\ kind = "stlink" => callRet[1].interface = "interface/stlink.cfg"
            /\ kind = "jlink" => callRet[1].interface = "interface/jlink.cfg"
            /\ kind = "cmsis-dap"
                   => callRet[1].interface = "interface/cmsis-dap.cfg"

C28_Witness ==
    /\ callRet # <<>>
    /\ callArg.stdout = JoinLines(<< <<"J", "-", "L", "i", "n", "k">>,
                                     <<"S", "T", "-", "L", "i", "n", "k">> >>)
    /\ callRet[1] = [type |-> "stlink", interface |-> "interface/stlink.cfg"]

\* C29: while the slot holds a descriptor, a detectDevice call for any root
\* returns that descriptor without searching the files and leaves the slot
\* alone, and only clearCache empties it; a call on an empty slot searches
\* the files of its root, and when it identifies no device the slot stays
\* empty.
C29_SingleSlotDeviceCache ==
    [][/\ cachedDeviceInfo # NoDevice
          => \/ /\ cachedDeviceInfo' = NoDevice
                /\ UNCHANGED <<devRet, devRoot, devCold>>
             \/ /\ cachedDeviceInfo' = cachedDeviceInfo
                /\ devRet' = cachedDeviceInfo
                /\ devCold' = FALSE
       /\ (/\ cachedDeviceInfo = NoDevice
           /\ <<devRet, devRoot, devCold>>' # <<devRet, devRoot, devCold>>)
          => /\ devCold' = TRUE
             /\ devRet' = FirstDetected(detectFromIoc(devRoot'),
                                        detectFromMakefile(devRoot'),
                                        detectFromLinkerScript(devRoot'))
             /\ cachedDeviceInfo' = devRet']_vars

C29_Witness ==
    /\ devRoot = "B"
    /\ devCold = FALSE
    /\ cachedDeviceInfo # NoDevice
    /\ devRet = cachedDeviceInfo
    /\ detectFromMakefile("B") \notin {NoDevice, cachedDeviceInfo}

\* C30: a detectToolchain() call that reaches its end has run every probe
\* and writes its snapshot into the cache, whether the cache was cleared or
\* written by another call while it was probing; a call that starts on a
\* filled cache, also one filled after a clearCache() by a call that was in
\* flight during the clear, returns the cached snapshot without probing; a
\* call that starts on an empty cache starts probing even while another
\* call is probing.
C30_ClearDuringDetection ==
    [][\A c \in Callers :
          /\ (tcPc[c] = "store" /\ tcPc'[c] = "idle")
             => /\ AllProbed(tcProbed[c])
                /\ cachedToolchain' = tcLocal[c]
                /\ tcPrev' = tcLocal[c]
          /\ (DetectToolchainStart(c) /\ cachedToolchain # NoToolchain)
             => /\ tcPrev' = cachedToolchain
                /\ tcPc'[c] = "idle"
                /\ tcProbed'[c] = {}
                /\ cachedToolchain' = cachedToolchain
          /\ (DetectToolchainStart(c) /\ cachedToolchain = NoToolchain)
             => (tcPc'[c] = FirstStep /\ tcProbed'[c] = {})]_vars

\* the last call was issued after a clearCache() and was served from the
\* cache, which a call in flight during the clear had filled, and another
\* call that started on the empty cache is about to overwrite the cache with
\* a different snapshot
C30_Witness ==
    /\ tcLastAfterClear
    /\ tcLastWarm
    /\ cachedToolchain # NoToolchain
    /\ \E c \in Callers :
          /\ tcPc[c] = "store"
          /\ tcLocal[c] # cachedToolchain

====
